---- MODULE Spec2Model ----
(***************************************************************************)
(* A model of sparrow, a terminal dashboard for a Transmission daemon.     *)
(*                                                                         *)
(* Strings are sequences of bytes (UTF-8), so that String::cmp is the      *)
(* lexicographic order of bytes and String::truncate counts bytes.         *)
(* Option<T> is a sequence of length 0 (None) or 1 (Some(x)).              *)
(***************************************************************************)
EXTENDS Integers, Sequences, FiniteSets, TLC

VARIABLES
    phase,        \* "startup" | "run" | "quit" | "failed" | "panic": where main() is
    mode,         \* app::Mode: "Home" | "Properties"
    items,        \* Home.items: Vec<Data>
    selected,     \* Home.state.selected(): Option<usize>
    stats,        \* SessionStat.stats
    data,         \* Properties.data: Option<TorrentData> (None while no Properties exists)
    selected_tab, \* Properties.selected_tab
    followups,    \* follow-up actions returned by handlers, not yet dispatched
    last,         \* the action dispatched last and what its requests returned
    reqs,         \* the transport requests issued by the last dispatch, in order
    wire,         \* the last Ok response of the transport to each view
    focus,        \* Option<id>: identity of the row that was selected when Detail was entered
    arg,          \* input of a function called on its own (function specifications)
    ret,          \* its result
    stream,       \* the event sources and the merged action stream of the run loop
    dispatched,   \* the actions the run loop has dispatched, in order
    client,       \* the shared Rc<RefCell<TransClient>>: its borrow flag and requests in flight
    tasks         \* the futures that use the client, each at its position

vars == <<phase, mode, items, selected, stats, data, selected_tab, followups,
          last, reqs, wire, focus, arg, ret, stream, dispatched, client, tasks>>

appVars == <<phase, mode, items, selected, stats, data, selected_tab, followups,
             last, reqs, wire, focus>>

fnVars == <<arg, ret>>

\* the variables of the specifications that look inside one dispatch
loopVars == <<stream, dispatched, client, tasks>>

----------------------------------------------------------------------------
(* Option and sequence helpers *)

None == <<>>

Some(x) == <<x>>

IsSome(o) == o # <<>>

Unwrap(o) == o[1]

Range(s) == {s[i] : i \in 1..Len(s)}

RECURSIVE Concat(_)
Concat(ss) == IF ss = <<>> THEN <<>> ELSE Head(ss) \o Concat(Tail(ss))

Min2(a, b) == IF a <= b THEN a ELSE b

\* Nothing produced, nothing dispatched, the client not borrowed: the value of
\* loopVars in the specifications that take a dispatch as one step
NoStream == [input |-> <<>>, timer |-> <<>>, produced |-> 0, pulled |-> 0, waited |-> 0]

FreeClient == [borrowed |-> FALSE, in_flight |-> <<>>]

LoopAtRest ==
    /\ stream = NoStream
    /\ dispatched = <<>>
    /\ client = FreeClient
    /\ tasks = <<>>

\* usize is modelled 5 bits wide: len - 1 and i * ITEM_HEIGHT wrap as in the
\* 64-bit build, at a smaller modulus, and a selection that a key can step
\* through the whole of usize stays within a few states. Every row index of
\* the model times ITEM_HEIGHT is below the modulus.
USIZE_MOD == 2^4

USIZE_MAX == USIZE_MOD - 1

----------------------------------------------------------------------------
(* String literals of the source, as bytes *)

S_B        == <<66>>
S_KB       == <<75, 66>>
S_MB       == <<77, 66>>
S_GB       == <<71, 66>>
S_TB       == <<84, 66>>
S_None     == <<78, 111, 110, 101>>
S_Unknown  == <<85, 110, 107, 110, 111, 119, 110>>
S_Inf      == <<73, 110, 102>>
S_Done     == <<68, 111, 110, 101>>
S_PerSec   == <<47, 115>>
S_Dots     == <<46, 46, 46>>
S_Status   == <<10, 83, 116, 97, 116, 117, 115, 58, 32>>
S_Have     == <<32, 32, 32, 32, 72, 97, 118, 101, 58, 32>>
S_Of       == <<32, 111, 102, 32>>
S_Low      == <<76, 111, 119>>
S_Normal   == <<78, 111, 114, 109, 97, 108>>
S_High     == <<72, 105, 103, 104>>

CH_d == 100
CH_h == 104
CH_m == 109
CH_s == 115
CH_dot == 46
CH_minus == 45
CH_space == 32
CH_percent == 37
CH_zero == 48

\* decimal digits of n >= 0
RECURSIVE Digits(_)
Digits(n) == IF n < 10 THEN <<CH_zero + n>> ELSE Digits(n \div 10) \o <<CH_zero + (n % 10)>>

\* Display of an integer ("{}")
IntStr(n) == IF n < 0 THEN <<CH_minus>> \o Digits(-n) ELSE Digits(n)

\* For 0 <= rem < den: floor(rem * scale / den), and how the rest compares
\* with one half (-1 below, 0 equal, 1 above). A den of 2^30 is split in
\* 1024 * 2^20 so that no product leaves TLC's 32-bit integers.
Frac(rem, den, scale) ==
    IF den <= 2^20
    THEN LET x == rem * scale
             r == x % den
         IN  [q |-> x \div den,
              half |-> IF 2 * r > den THEN 1 ELSE IF 2 * r = den THEN 0 ELSE -1]
    ELSE LET d1 == den \div 1024
             h == rem \div 1024
             l == rem % 1024
             x == h * scale + ((l * scale) \div 1024)
             f == (l * scale) % 1024
             r == x % d1
         IN  [q |-> x \div d1,
              half |-> IF 2 * r > d1 THEN 1
                       ELSE IF 2 * r = d1 THEN (IF f > 0 THEN 1 ELSE 0)
                       ELSE -1]

\* |num/den| (den > 0) in units of 1/scale, rounded to the nearest unit, ties
\* to even: what "{:.1}" (scale 10) and "{:.2}" (scale 100) print of a value
\* the float holds exactly
Abs(n) == IF n < 0 THEN -n ELSE n

\* whole units plus the fraction fr, the rest of fr deciding the last unit
RoundTies(whole, fr) ==
    IF fr.half = 1 \/ (fr.half = 0 /\ (whole + fr.q) % 2 = 1)
    THEN whole + fr.q + 1
    ELSE whole + fr.q

RoundHalfEven(num, den, scale) ==
    RoundTies((Abs(num) \div den) * scale, Frac(Abs(num) % den, den, scale))

\* "{:.1}" of num/den
Tenths(neg, t) ==
    (IF neg THEN <<CH_minus>> ELSE <<>>)
    \o Digits(t \div 10) \o <<CH_dot>> \o Digits(t % 10)

Fixed1(num, den) == Tenths(num < 0, RoundHalfEven(num, den, 10))

\* "{:.2}" of num/den
Hundredths(neg, t) ==
    (IF neg THEN <<CH_minus>> ELSE <<>>)
    \o Digits(t \div 100) \o <<CH_dot>>
    \o Digits((t % 100) \div 10) \o Digits(t % 10)

Fixed2(num, den) == Hundredths(num < 0, RoundHalfEven(num, den, 100))

----------------------------------------------------------------------------
(* utils.rs *)

UNITS == <<S_B, S_KB, S_MB, S_GB, S_TB>>

\* bytes < 1024 << (i * 10); from i = 3 on the right side is above INT_MAX
BelowShifted(bytes, i) ==
    IF i >= 3 THEN TRUE ELSE bytes < 1024 * 2^(i * 10)

\* find_map over the units: the first i with bytes < 1024 << (i * 10)
\* the least of hits, if there is one
First(hits) ==
    IF hits = {} THEN None ELSE Some(CHOOSE i \in hits : \A j \in hits : i <= j)

UnitIndex(bytes) == First({i \in 0..(Len(UNITS) - 1) : BelowShifted(bytes, i)})

\* the unit's format!, or unwrap_or's
FormatBytes(bytes, k) ==
    IF IsSome(k)
    THEN Fixed1(bytes, 1024^Unwrap(k)) \o <<CH_space>> \o UNITS[Unwrap(k) + 1]
    ELSE IntStr(bytes) \o <<CH_space>> \o S_B

convert_bytes(bytes) == FormatBytes(bytes, UnitIndex(bytes))

\* The same function on the whole of the non-negative i64. A count is held as
\* WIDE_LIMBS digits of base 1024, least significant first, since no count
\* from 2^31 on is one of TLC's integers; 1024^i is a one in digit i.
LIMB == 1024

WIDE_LIMBS == 7

\* bytes < 1024 << (i * 10): every digit from i + 1 on is zero
BelowShiftedWide_Inclusive(b, i) ==
    \/ \A j \in (i + 2)..Len(b) : b[j] = 0
    \/ /\ b[i + 2] = 1
       /\ \A j \in 1..Len(b) : j # i + 2 => b[j] = 0

BelowShiftedWide(b, i) == \A j \in (i + 2)..Len(b) : b[j] = 0

UnitIndexWide(b) == First({i \in 0..(Len(UNITS) - 1) : BelowShiftedWide(b, i)})

\* b * m + carry for a small m, one digit longer than b
RECURSIVE MulSmall(_, _, _)
MulSmall(b, m, carry) ==
    IF b = <<>> THEN <<carry>>
    ELSE <<(Head(b) * m + carry) % LIMB>>
         \o MulSmall(Tail(b), m, (Head(b) * m + carry) \div LIMB)

\* how the digits x (a fraction of 1024^Len(x)) compare with one half
HalfOf(x) ==
    IF x = <<>> \/ x[Len(x)] < LIMB \div 2 THEN -1
    ELSE IF x[Len(x)] > LIMB \div 2 THEN 1
    ELSE IF \E j \in 1..(Len(x) - 1) : x[j] # 0 THEN 1 ELSE 0

\* as Frac: the tenths of the fraction (b mod 1024^k) / 1024^k and how the
\* rest compares with one half. bytes as f64 is exact below 2^53 and so is
\* the division by a power of two.
FracOfProduct(x, k) == [q |-> x[k + 1], half |-> HalfOf(SubSeq(x, 1, k))]

FracWide(b, k) == FracOfProduct(MulSmall(SubSeq(b, 1, k), 10, 0), k)

\* b divided by a small d, most significant digit first: the rest, then the
\* digits of the quotient
RECURSIVE DivSmall(_, _, _)
DivSmall(b, d, rem) ==
    IF b = <<>> THEN <<rem>>
    ELSE DivSmall(SubSeq(b, 1, Len(b) - 1), d, (rem * LIMB + b[Len(b)]) % d)
         \o <<(rem * LIMB + b[Len(b)]) \div d>>

\* Display of the count ("{bytes}")
RECURSIVE WideStr(_)
WideStr(b) ==
    IF BelowShiftedWide(b, 0) /\ b[1] < 10 THEN <<CH_zero + b[1]>>
    ELSE WideStr(Tail(DivSmall(b, 10, 0))) \o <<CH_zero + Head(DivSmall(b, 10, 0))>>

FormatBytesWide(b, k) ==
    IF IsSome(k)
    THEN Tenths(FALSE, RoundTies(b[Unwrap(k) + 1] * 10, FracWide(b, Unwrap(k))))
         \o <<CH_space>> \o UNITS[Unwrap(k) + 1]
    ELSE WideStr(b) \o <<CH_space>> \o S_B

convert_bytes_wide(b) == FormatBytesWide(b, UnitIndexWide(b))

\* An f32 of the source is held as a whole number of 1/F32_DEN: a power of
\* two, so that every value held is one an f32 holds exactly, as is its
\* hundredfold (100 * n / 4096 = 25 * n / 1024 with 25 * n < 2^24)
F32_DEN == 4096

\* handle_ratio with every negative ratio taken for the "no ratio" mark
handle_ratio_Negative(ratio) ==
    IF ratio < 0 THEN S_None ELSE Fixed2(ratio, F32_DEN)

handle_ratio(ratio) ==
    IF ratio = -F32_DEN THEN S_None ELSE Fixed2(ratio, F32_DEN)

convert_priority(priority) ==
    CASE priority = "Low" -> S_Low
      [] priority = "Normal" -> S_Normal
      [] priority = "High" -> S_High

convert_status(status) ==
    CASE status = "Stopped" -> <<83, 116, 111, 112, 112, 101, 100>>
      [] status = "QueuedToVerify" ->
            <<81, 117, 101, 117, 101, 100, 84, 111, 86, 101, 114, 105, 102, 121>>
      [] status = "Verifying" -> <<86, 101, 114, 105, 102, 121, 105, 110, 103>>
      [] status = "QueuedToDownload" ->
            <<81, 117, 101, 117, 101, 100, 84, 111, 68, 111, 119, 110, 108, 111, 97, 100>>
      [] status = "Downloading" ->
            <<68, 111, 119, 110, 108, 111, 97, 100, 105, 110, 103>>
      [] status = "QueuedToSeed" ->
            <<81, 117, 101, 117, 101, 100, 84, 111, 83, 101, 101, 100>>
      [] status = "Seeding" -> <<83, 101, 101, 100, 105, 110, 103>>

\* str::find: the index (1-based) of the first c in s, if there is one
FindByte(s, c) == First({i \in 1..Len(s) : s[i] = c})

\* convert_eta without the truncation after the day
TruncateAt_Keep(readable, d) == readable

\* if readable.contains('d') { readable.truncate(readable.find('d') + 1) }
TruncateAt(readable, d) ==
    IF IsSome(d) THEN SubSeq(readable, 1, Unwrap(d)) ELSE readable

TruncateAtDay(readable) == TruncateAt(readable, FindByte(readable, CH_d))

\* the filter of convert_eta letting a zero component through
EtaPart_Zero(value, unit) == IF value >= 0 THEN IntStr(value) \o <<unit>> ELSE <<>>

EtaPart(value, unit) == IF value > 0 THEN IntStr(value) \o <<unit>> ELSE <<>>

\* Rust's / and % truncate toward zero
TDiv(a, b) == IF a >= 0 THEN a \div b ELSE -((-a) \div b)

TRem(a, b) == a - b * TDiv(a, b)

\* convert_eta with 99 days already beyond the limit
convert_eta_Inclusive(eta) ==
    IF eta = -1 THEN S_Unknown
    ELSE IF eta = -2 \/ eta >= 86400 * 99 THEN S_Inf
    ELSE TruncateAtDay(EtaPart(TDiv(eta, 86400), CH_d)
                       \o EtaPart(TDiv(TRem(eta, 86400), 3600), CH_h)
                       \o EtaPart(TDiv(TRem(eta, 3600), 60), CH_m)
                       \o EtaPart(TRem(eta, 60), CH_s))

convert_eta(eta) ==
    IF eta = -1 THEN S_Unknown
    ELSE IF eta = -2 \/ eta > 86400 * 99 THEN S_Inf
    ELSE TruncateAtDay(EtaPart(TDiv(eta, 86400), CH_d)
                       \o EtaPart(TDiv(TRem(eta, 86400), 3600), CH_h)
                       \o EtaPart(TDiv(TRem(eta, 3600), 60), CH_m)
                       \o EtaPart(TRem(eta, 60), CH_s))

\* convert_percentage with a ratio of exactly 1.0 not yet done
convert_percentage_Strict(done) ==
    IF done > F32_DEN THEN S_Done ELSE Fixed1(100 * done, F32_DEN) \o <<CH_percent>>

convert_percentage(done) ==
    IF done >= F32_DEN THEN S_Done ELSE Fixed1(100 * done, F32_DEN) \o <<CH_percent>>

----------------------------------------------------------------------------
(* The raw torrent of the transport (transmission_rpc::types::Torrent):    *)
(* every field is an Option.                                               *)

\* String::cmp: lexicographic on bytes; -1, 0 or 1
RECURSIVE StrCmp(_, _)
StrCmp(a, b) ==
    IF a = <<>> /\ b = <<>> THEN 0
    ELSE IF a = <<>> THEN -1
    ELSE IF b = <<>> THEN 1
    ELSE IF Head(a) < Head(b) THEN -1
    ELSE IF Head(a) > Head(b) THEN 1
    ELSE StrCmp(Tail(a), Tail(b))

\* |a, b| a.name.cmp(&b.name)
NameCmp(a, b) == StrCmp(a.name, b.name)

\* A sort that is not stable: x goes in front of the elements equal to it
RECURSIVE InsertByName_Unstable(_, _)
InsertByName_Unstable(sorted, x) ==
    IF sorted = <<>> THEN <<x>>
    ELSE IF NameCmp(Head(sorted), x) >= 0 THEN <<x>> \o sorted
    ELSE <<Head(sorted)>> \o InsertByName_Unstable(Tail(sorted), x)

\* One step of the stable sort: x goes behind every element not greater than it
RECURSIVE InsertByName(_, _)
InsertByName(sorted, x) ==
    IF sorted = <<>> THEN <<x>>
    ELSE IF NameCmp(Head(sorted), x) > 0 THEN <<x>> \o sorted
    ELSE <<Head(sorted)>> \o InsertByName(Tail(sorted), x)

\* .sorted_by(|a, b| a.name.cmp(&b.name)): itertools collects and calls the
\* stable slice::sort_by
RECURSIVE SortedByName(_)
SortedByName(s) ==
    IF s = <<>> THEN <<>>
    ELSE InsertByName(SortedByName(SubSeq(s, 1, Len(s) - 1)), s[Len(s)])

MAX_NAME_LEN == 80

\* str::is_char_boundary(i) for 0 < i < len: the byte at offset i does not
\* continue a UTF-8 sequence
IsCharBoundary(name, i) ==
    IF i = 0 \/ i >= Len(name) THEN i <= Len(name)
    ELSE ~(name[i + 1] >= 128 /\ name[i + 1] < 192)

\* raw_name.truncate(80) panics when offset 80 is inside a character
TruncatePanics(name) ==
    Len(name) > MAX_NAME_LEN /\ ~IsCharBoundary(name, MAX_NAME_LEN)

\* if raw_name.len() > 80 { raw_name.truncate(80); raw_name.push_str("...") }
TruncatedName(name) ==
    IF Len(name) > MAX_NAME_LEN
    THEN SubSeq(name, 1, MAX_NAME_LEN) \o S_Dots
    ELSE name

\* format!("{raw_name}\nStatus: {status}    Have: {downloaded} of {size_done}")
FormattedName(raw_name, status, downloaded, size_done) ==
    raw_name \o S_Status \o status \o S_Have \o downloaded \o S_Of \o size_done

\* DateTime::from_timestamp(secs, 0): None outside the dates chrono can hold,
\* about 262000 years either side of 1970. The seconds of such a date do not
\* fit TLC's 32-bit integers, so the model holds added_date and done_date in
\* days and the bound in days.
CHRONO_MAX_DAYS == 95000000

FromTimestamp(days) ==
    IF days > CHRONO_MAX_DAYS \/ days < -CHRONO_MAX_DAYS THEN None ELSE Some(days)

AnyMissing(t, fields) == \E i \in 1..Len(fields) : t[fields[i]] = None

----------------------------------------------------------------------------
(* home.rs: get_torrent_data *)

\* the fields the closure reads with `?`, in the order it reads them
HOME_FIELDS ==
    <<"name", "percent_done", "eta", "rate_upload", "rate_download",
      "upload_ratio", "status", "size_when_done", "left_until_done", "id",
      "is_stalled">>

HomeMapPanics(t) == t.name # None /\ TruncatePanics(Unwrap(t.name))

\* the filter_map closure: Some(Data) or None
HomeMapOne(t) ==
    IF AnyMissing(t, HOME_FIELDS) THEN None
    ELSE Some([id |-> Unwrap(t.id),
               is_stalled |-> Unwrap(t.is_stalled),
               name |-> FormattedName(
                   TruncatedName(Unwrap(t.name)),
                   convert_status(Unwrap(t.status)),
                   convert_bytes(Unwrap(t.size_when_done) - Unwrap(t.left_until_done)),
                   convert_bytes(Unwrap(t.size_when_done))),
               done |-> convert_percentage(Unwrap(t.percent_done)),
               eta |-> convert_eta(Unwrap(t.eta)),
               upload_speed |-> convert_bytes(Unwrap(t.rate_upload)) \o S_PerSec,
               download_speed |-> convert_bytes(Unwrap(t.rate_download)) \o S_PerSec,
               ratio |-> handle_ratio(Unwrap(t.upload_ratio))])

\* A mapper that stops at the first record it cannot map
RECURSIVE HomeFilterMap_Stop(_)
HomeFilterMap_Stop(torrents) ==
    IF torrents = <<>> \/ HomeMapOne(Head(torrents)) = None THEN <<>>
    ELSE HomeMapOne(Head(torrents)) \o HomeFilterMap_Stop(Tail(torrents))

RECURSIVE HomeFilterMap(_)
HomeFilterMap(torrents) ==
    IF torrents = <<>> THEN <<>>
    ELSE HomeMapOne(Head(torrents)) \o HomeFilterMap(Tail(torrents))

\* Ok(torrents.iter().filter_map(..).sorted_by(..).collect_vec())
get_torrent_data(torrents) == SortedByName(HomeFilterMap(torrents))

get_torrent_data_panics(torrents) ==
    \E i \in 1..Len(torrents) : HomeMapPanics(torrents[i])

----------------------------------------------------------------------------
(* data.rs: map_torrent_data *)

MapTracker(tr) ==
    [host |-> tr.host, is_backup |-> tr.is_backup, next_announce |-> tr.next_announce_time]

RECURSIVE MapTrackers(_)
MapTrackers(trs) ==
    IF trs = <<>> THEN <<>> ELSE <<MapTracker(Head(trs))>> \o MapTrackers(Tail(trs))

\* the inner filter_map closure of file i (0-based): file_stats.clone()?, then
\* file_stats.get(i)? twice
MapFile(i, f, file_stats) ==
    IF file_stats = None THEN None
    ELSE IF i >= Len(Unwrap(file_stats)) THEN None
    ELSE Some([name |-> f.name,
               downloaded |-> convert_bytes(f.bytes_completed),
               total_size |-> convert_bytes(f.length),
               priority |-> convert_priority(Unwrap(file_stats)[i + 1].priority),
               wanted |-> Unwrap(file_stats)[i + 1].wanted])

RECURSIVE MapFilesFrom(_, _, _)
MapFilesFrom(i, files, file_stats) ==
    IF i >= Len(files) THEN <<>>
    ELSE MapFile(i, files[i + 1], file_stats) \o MapFilesFrom(i + 1, files, file_stats)

MapFiles(files, file_stats) == MapFilesFrom(0, files, file_stats)

\* the fields read with `?` before and after the name is cut
DATA_FIELDS_HEAD == <<"tracker_stats", "files", "name">>

DATA_FIELDS_TAIL ==
    <<"status", "size_when_done", "left_until_done", "id", "is_stalled", "name",
      "eta", "upload_ratio", "percent_done", "total_size", "size_when_done",
      "uploaded_ever", "rate_upload", "rate_download", "download_dir",
      "hash_string", "added_date", "done_date", "error_string">>

DataMapPanics(t) ==
    ~AnyMissing(t, DATA_FIELDS_HEAD) /\ TruncatePanics(Unwrap(t.name))

\* the filter_map closure: Some(Torrent) or None
DataMapOne(t) ==
    IF AnyMissing(t, DATA_FIELDS_HEAD) \/ AnyMissing(t, DATA_FIELDS_TAIL) THEN None
    ELSE IF FromTimestamp(Unwrap(t.added_date)) = None
            \/ FromTimestamp(Unwrap(t.done_date)) = None THEN None
    ELSE LET status == convert_status(Unwrap(t.status))
             downloaded ==
                 convert_bytes(Unwrap(t.size_when_done) - Unwrap(t.left_until_done))
             size_done == convert_bytes(Unwrap(t.size_when_done))
         IN Some([id |-> Unwrap(t.id),
                  is_stalled |-> Unwrap(t.is_stalled),
                  status |-> status,
                  name |-> Unwrap(t.name),
                  formatted_name |-> FormattedName(TruncatedName(Unwrap(t.name)),
                                                   status, downloaded, size_done),
                  eta |-> convert_eta(Unwrap(t.eta)),
                  ratio |-> handle_ratio(Unwrap(t.upload_ratio)),
                  percent_done |-> convert_percentage(Unwrap(t.percent_done)),
                  total_size |-> convert_bytes(Unwrap(t.total_size)),
                  size_done |-> size_done,
                  uploaded |-> convert_bytes(Unwrap(t.uploaded_ever)),
                  upload_speed |-> convert_bytes(Unwrap(t.rate_upload)) \o S_PerSec,
                  downloaded |-> downloaded,
                  download_speed |-> convert_bytes(Unwrap(t.rate_download)) \o S_PerSec,
                  location |-> Unwrap(t.download_dir),
                  hash |-> Unwrap(t.hash_string),
                  added_date |-> Unwrap(FromTimestamp(Unwrap(t.added_date))),
                  done_date |-> Unwrap(FromTimestamp(Unwrap(t.done_date))),
                  error |-> Unwrap(t.error_string),
                  trackers |-> MapTrackers(Unwrap(t.tracker_stats)),
                  files |-> MapFiles(Unwrap(t.files), t.file_stats)])

RECURSIVE DataFilterMap(_)
DataFilterMap(torrents) ==
    IF torrents = <<>> THEN <<>>
    ELSE DataMapOne(Head(torrents)) \o DataFilterMap(Tail(torrents))

\* Ok(torrents.iter().filter_map(..).sorted_by(..).collect_vec())
map_torrent_data(torrents) == SortedByName(DataFilterMap(torrents))

map_torrent_data_panics(torrents) ==
    \E i \in 1..Len(torrents) : DataMapPanics(torrents[i])

----------------------------------------------------------------------------
(* properties.rs: map_torrent_data(client, id) *)

PROP_FIELDS ==
    <<"tracker_stats", "files", "is_stalled", "name", "eta", "upload_ratio",
      "percent_done", "total_size", "size_when_done", "uploaded_ever",
      "left_until_done", "download_dir", "hash_string", "added_date",
      "done_date", "error_string">>

\* the filter_map closure: Some(TorrentData) or None
PropMapOne(t) ==
    IF AnyMissing(t, PROP_FIELDS) THEN None
    ELSE IF FromTimestamp(Unwrap(t.added_date)) = None
            \/ FromTimestamp(Unwrap(t.done_date)) = None THEN None
    ELSE Some([is_stalled |-> Unwrap(t.is_stalled),
               name |-> Unwrap(t.name),
               eta |-> convert_eta(Unwrap(t.eta)),
               ratio |-> handle_ratio(Unwrap(t.upload_ratio)),
               percent_done |-> convert_percentage(Unwrap(t.percent_done)),
               total_size |-> convert_bytes(Unwrap(t.total_size)),
               size_done |-> convert_bytes(Unwrap(t.size_when_done)),
               uploaded |-> convert_bytes(Unwrap(t.uploaded_ever)),
               downloaded |->
                   convert_bytes(Unwrap(t.size_when_done) - Unwrap(t.left_until_done)),
               location |-> Unwrap(t.download_dir),
               hash |-> Unwrap(t.hash_string),
               added_date |-> Unwrap(FromTimestamp(Unwrap(t.added_date))),
               done_date |-> Unwrap(FromTimestamp(Unwrap(t.done_date))),
               error |-> Unwrap(t.error_string),
               trackers |-> MapTrackers(Unwrap(t.tracker_stats)),
               files |-> MapFiles(Unwrap(t.files), t.file_stats)])

RECURSIVE PropFilterMap(_)
PropFilterMap(torrents) ==
    IF torrents = <<>> THEN <<>>
    ELSE PropMapOne(Head(torrents)) \o PropFilterMap(Tail(torrents))

\* .filter_map(..).next().ok_or(AppError::OutOfBound): Some(first) or None
\* for the error
IterNext(mapped) == IF mapped = <<>> THEN None ELSE Some(Head(mapped))

prop_map_torrent_data(torrents) == IterNext(PropFilterMap(torrents))

----------------------------------------------------------------------------
(* Actions (action.rs is not among the sources; the variants are the ones   *)
(* the components build and match on)                                      *)

Tick == [type |-> "Tick", arg |-> ""]

Render == [type |-> "Render", arg |-> ""]

Quit == [type |-> "Quit", arg |-> ""]

ClearScreen == [type |-> "ClearScreen", arg |-> ""]

Key(code) == [type |-> "Key", arg |-> code]

ErrorAct(msg) == [type |-> "Error", arg |-> msg]

ModeAct(m) == [type |-> "Mode", arg |-> m]

\* err.to_string() of the three kinds of failure
E_TRANSPORT == "transport failure"

E_NO_ROW == "NoRowSelected"

E_OUT_OF_BOUND == "OutOfBound"

\* The key codes the handlers tell apart, and one they do not ("x")
KeyCodes ==
    {"q", "l", "Enter", "j", "Down", "k", "Up", "g", "G", "p", "s", "S",
     "Esc", "h", "Left", "Right", "x"}

\* A request on the shared TransClient
Req(op, view, action, filtered, ids) ==
    [op |-> op, view |-> view, action |-> action, filtered |-> filtered, ids |-> ids]

\* client.torrent_get(None, None)
GetAll(view) == Req("torrent_get", view, "", FALSE, <<>>)

\* client.torrent_get(None, Some(vec![Id::Id(id)]))
GetOne(view, id) == Req("torrent_get", view, "", TRUE, <<id>>)

\* client.torrent_action(action, ids)
SetAction(action, ids) == Req("torrent_action", "Home", action, TRUE, ids)

\* client.session_stats()
GetStats == Req("session_stats", "SessionStat", "", FALSE, <<>>)

\* The result of a request: Ok(body) or Err
Ok(body) == [ok |-> TRUE, body |-> body]

Err == [ok |-> FALSE, body |-> <<>>]

----------------------------------------------------------------------------
(* home.rs: Home *)

ITEM_HEIGHT == 4

\* usize arithmetic: with overflow checks (a debug build) a result outside
\* 0..USIZE_MAX panics, without them (a release build) it wraps
Wrap(x) == x % USIZE_MOD

Overflows(x) == x < 0 \/ x > USIZE_MAX

\* Home::next: [panic, selected]
Home_next(its, sel, checks) ==
    LET n == Len(its)
        under == IsSome(sel) /\ Overflows(n - 1)
        i == IF IsSome(sel)
             THEN (IF Unwrap(sel) >= Wrap(n - 1) THEN 0 ELSE Unwrap(sel) + 1)
             ELSE 0
    IN  [panic |-> checks /\ (under \/ Overflows(i * ITEM_HEIGHT)),
         selected |-> Some(i)]

\* Home::previous: [panic, selected]
Home_previous(its, sel, checks) ==
    LET n == Len(its)
        under == IsSome(sel) /\ Unwrap(sel) = 0 /\ Overflows(n - 1)
        i == IF IsSome(sel)
             THEN (IF Unwrap(sel) = 0 THEN Wrap(n - 1) ELSE Unwrap(sel) - 1)
             ELSE 0
    IN  [panic |-> checks /\ (under \/ Overflows(i * ITEM_HEIGHT)),
         selected |-> Some(i)]

\* Home::top: TableState::select_first
Home_top(sel) == Some(0)

\* Home::bottom: TableState::select_last selects usize::MAX, which the next
\* draw of the table brings back to the last row
Home_bottom(sel) == Some(USIZE_MAX)

\* a toggle that stops the selected row whatever its state
Home_toggle_request_Stop(its, sel) ==
    IF sel = None THEN [ok |-> FALSE, body |-> E_NO_ROW]
    ELSE IF Unwrap(sel) >= Len(its) THEN [ok |-> FALSE, body |-> E_OUT_OF_BOUND]
    ELSE Ok(SetAction("Stop", <<its[Unwrap(sel) + 1].id>>))

\* a toggle that asks the transport even when it finds no row
Home_toggle_request_Unchecked(its, sel) ==
    IF sel = None \/ Unwrap(sel) >= Len(its) THEN Ok(SetAction("Stop", <<>>))
    ELSE LET row == its[Unwrap(sel) + 1]
         IN  Ok(SetAction(IF row.is_stalled THEN "Start" ELSE "Stop", <<row.id>>))

\* Home::toggle_state up to the request: Err(message) or Ok(request)
Home_toggle_request(its, sel) ==
    IF sel = None THEN [ok |-> FALSE, body |-> E_NO_ROW]
    ELSE IF Unwrap(sel) >= Len(its) THEN [ok |-> FALSE, body |-> E_OUT_OF_BOUND]
    ELSE LET row == its[Unwrap(sel) + 1]
         IN  Ok(SetAction(IF row.is_stalled THEN "Start" ELSE "Stop", <<row.id>>))

\* self.items.iter().map(|t| Id::Id(t.id)).collect_vec()
AllIds(its) == [i \in 1..Len(its) |-> its[i].id]

\* A key handler in which j, too, asks for the Detail view
Home_handle_key_event_JSelects(code, its, sel, res, checks) ==
    [followup |-> IF code \in {"l", "Enter", "j"} THEN Some(ModeAct("Properties"))
                  ELSE IF code = "q" THEN Some(Quit) ELSE None,
     selected |-> sel, reqs |-> <<>>, panic |-> FALSE]

\* A key handler that returns no follow-up action
Home_handle_key_event_Silent(code, its, sel, res, checks) ==
    [followup |-> None, selected |-> sel, reqs |-> <<>>, panic |-> FALSE]

\* Home::handle_key_event. res is what the transport answers should the key
\* issue a request. The result: the follow-up action, the selection, the
\* requests issued, and whether the handler panicked.
Home_handle_key_event(code, its, sel, res, checks) ==
    LET out(f, s, r, p) == [followup |-> f, selected |-> s, reqs |-> r, panic |-> p]
        answer(r) == IF res.ok THEN out(None, sel, <<r>>, FALSE)
                     ELSE out(Some(ErrorAct(E_TRANSPORT)), sel, <<r>>, FALSE)
    IN  CASE code = "q" -> out(Some(Quit), sel, <<>>, FALSE)
          [] code \in {"l", "Enter"} -> out(Some(ModeAct("Properties")), sel, <<>>, FALSE)
          [] code \in {"j", "Down"} ->
                LET m == Home_next(its, sel, checks)
                IN  out(None, IF m.panic THEN sel ELSE m.selected, <<>>, m.panic)
          [] code \in {"k", "Up"} ->
                LET m == Home_previous(its, sel, checks)
                IN  out(None, IF m.panic THEN sel ELSE m.selected, <<>>, m.panic)
          [] code = "g" -> out(None, Home_top(sel), <<>>, FALSE)
          [] code = "G" -> out(None, Home_bottom(sel), <<>>, FALSE)
          [] code = "p" ->
                LET t == Home_toggle_request(its, sel)
                IN  IF t.ok THEN answer(t.body)
                    ELSE out(Some(ErrorAct(t.body)), sel, <<>>, FALSE)
          [] code = "s" -> answer(SetAction("Start", AllIds(its)))
          [] code = "S" -> answer(SetAction("Stop", AllIds(its)))
          [] OTHER -> out(None, sel, <<>>, FALSE)

\* An update that empties the list when an Error passes through it
Home_update_ErrorClears(action, its, res) ==
    IF action.type = "Tick"
    THEN IF res.ok
         THEN [items |-> get_torrent_data(res.body), followup |-> None]
         ELSE [items |-> its, followup |-> Some(ErrorAct(E_TRANSPORT))]
    ELSE [items |-> IF action.type = "Error" THEN <<>> ELSE its, followup |-> None]

\* An update that empties the list when the request fails
Home_update_Clear(action, its, res) ==
    IF action.type = "Tick"
    THEN IF res.ok
         THEN [items |-> get_torrent_data(res.body), followup |-> None]
         ELSE [items |-> <<>>, followup |-> Some(ErrorAct(E_TRANSPORT))]
    ELSE [items |-> its, followup |-> None]

\* Home::update: the items and the follow-up action. res is the answer of
\* torrent_get to a Tick.
Home_update(action, its, res) ==
    IF action.type = "Tick"
    THEN IF res.ok
         THEN [items |-> get_torrent_data(res.body), followup |-> None]
         ELSE [items |-> its, followup |-> Some(ErrorAct(E_TRANSPORT))]
    ELSE [items |-> its, followup |-> None]

\* an update that asks the transport on Render as on Tick
Home_update_reqs_OnRender(action) ==
    IF action.type \in {"Tick", "Render"} THEN <<GetAll("Home")>> ELSE <<>>

\* The requests Home::update issues
Home_update_reqs(action) ==
    IF action.type = "Tick" THEN <<GetAll("Home")>> ELSE <<>>

\* Home::draw: rendering the table brings a selection past the last row back
\* to the last row (ratatui's Table, which select_last relies on)
Home_draw(its, sel) ==
    IF IsSome(sel) /\ Unwrap(sel) >= Len(its)
    THEN Some(IF Len(its) = 0 THEN 0 ELSE Len(its) - 1)
    ELSE sel

\* Home::draw with a ratatui whose Table also drops the selection when it has
\* no rows: which of the two the build links is not fixed by the sources
Home_draw_unselects(its, sel) ==
    IF Len(its) = 0 THEN None ELSE Home_draw(its, sel)

\* a Home::new that swallows the error of its request
Home_new_Infallible(res) ==
    [ok |-> TRUE,
     items |-> IF res.ok THEN get_torrent_data(res.body) ELSE <<>>,
     selected |-> Some(0)]

\* Home::new: the items and the selection TableState::default().with_selected(0)
Home_new(res) ==
    [ok |-> res.ok,
     items |-> IF res.ok THEN get_torrent_data(res.body) ELSE <<>>,
     selected |-> Some(0)]

----------------------------------------------------------------------------
(* session_stats.rs: SessionStat *)

\* SessionStat::update: the stats and the follow-up action
SessionStat_update(action, st, res) ==
    IF action.type = "Tick"
    THEN IF res.ok
         THEN [stats |-> Some(res.body), followup |-> None]
         ELSE [stats |-> st, followup |-> Some(ErrorAct(E_TRANSPORT))]
    ELSE [stats |-> st, followup |-> None]

SessionStat_update_reqs(action) ==
    IF action.type = "Tick" THEN <<GetStats>> ELSE <<>>

\* SessionStat::new
SessionStat_new(res) ==
    [ok |-> res.ok, stats |-> IF res.ok THEN Some(res.body) ELSE None]

----------------------------------------------------------------------------
(* properties.rs: Properties *)

\* The identity Properties::new and Properties::update pass to map_torrent_data
PROPERTIES_ID == 1

TABS == <<"Info", "Peers", "Tracker", "Files">>

\* `self as usize`
TabIndex(tab) == CHOOSE i \in 0..(Len(TABS) - 1) : TABS[i + 1] = tab

\* SelectedTab::from_repr
TabFromRepr(i) == IF i >= 0 /\ i < Len(TABS) THEN Some(TABS[i + 1]) ELSE None

\* a next that goes from the last tab round to the first
SelectedTab_next_Wraps(tab) == TABS[((TabIndex(tab) + 1) % Len(TABS)) + 1]

\* SelectedTab::next: from_repr(index.saturating_add(1)).unwrap_or(self)
SelectedTab_next(tab) ==
    LET t == TabFromRepr(TabIndex(tab) + 1)
    IN  IF IsSome(t) THEN Unwrap(t) ELSE tab

\* SelectedTab::previous: from_repr(index.saturating_sub(1)).unwrap_or(self)
SelectedTab_previous(tab) ==
    LET i == TabIndex(tab)
        t == TabFromRepr(IF i = 0 THEN 0 ELSE i - 1)
    IN  IF IsSome(t) THEN Unwrap(t) ELSE tab

\* A key handler of the Detail view in which q does nothing
Properties_handle_key_event_NoQuit(code, tab) ==
    [followup |-> IF code = "Esc" THEN Some(ModeAct("Home")) ELSE None,
     selected_tab |-> tab]

\* Properties::handle_key_event: the follow-up action and the selected tab
Properties_handle_key_event(code, tab) ==
    CASE code = "q" -> [followup |-> Some(Quit), selected_tab |-> tab]
      [] code = "Esc" -> [followup |-> Some(ModeAct("Home")), selected_tab |-> tab]
      [] code \in {"l", "Right"} ->
            [followup |-> None, selected_tab |-> SelectedTab_next(tab)]
      [] code \in {"h", "Left"} ->
            LET t == SelectedTab_previous(tab)
            IN  [followup |-> IF t = "Tracker" THEN Some(ClearScreen) ELSE None,
                 selected_tab |-> t]
      [] OTHER -> [followup |-> None, selected_tab |-> tab]

\* map_torrent_data(client, id) of properties.rs on the transport's answer:
\* Ok(TorrentData), or Err(message)
ok_or(o, e) == IF IsSome(o) THEN Ok(Unwrap(o)) ELSE [ok |-> FALSE, body |-> e]

Properties_map(res) ==
    IF ~res.ok THEN [ok |-> FALSE, body |-> E_TRANSPORT]
    ELSE ok_or(prop_map_torrent_data(res.body), E_OUT_OF_BOUND)

\* Properties::update: the data and the follow-up action
\* A refresh that never replaces the data
Properties_refresh_Keep(dat, m) ==
    [data |-> dat, followup |-> IF m.ok THEN None ELSE Some(ErrorAct(m.body))]

\* match map_torrent_data(..) { Ok(data) => self.data = data, Err(err) => .. }
Properties_refresh(dat, m) ==
    IF m.ok THEN [data |-> Some(m.body), followup |-> None]
    ELSE [data |-> dat, followup |-> Some(ErrorAct(m.body))]

Properties_update(action, dat, res) ==
    IF action.type = "Tick" THEN Properties_refresh(dat, Properties_map(res))
    ELSE [data |-> dat, followup |-> None]

\* The request of Properties::update and of Properties::new
Properties_request == GetOne("Properties", PROPERTIES_ID)

Properties_update_reqs(action) ==
    IF action.type = "Tick" THEN <<Properties_request>> ELSE <<>>

\* Properties::new
Properties_with(m) ==
    [ok |-> m.ok,
     error |-> IF m.ok THEN "" ELSE m.body,
     data |-> IF m.ok THEN Some(m.body) ELSE None,
     selected_tab |-> "Info"]

Properties_new(res) == Properties_with(Properties_map(res))

----------------------------------------------------------------------------
(* What the transport may answer: the inputs of the model *)

MaxTorrents == 2

TorrentIds == {1, 2}

NameA == <<97>>

NameLowerB == <<98>>

NameUpperB == <<66>>

RawTracker ==
    [host |-> <<116>>, is_backup |-> FALSE, next_announce_time |-> 1700000000]

RawFiles ==
    <<[name |-> <<100, 47, 102>>, bytes_completed |-> 512, length |-> 1024],
      [name |-> <<120>>, bytes_completed |-> 1024, length |-> 1024]>>

RawFileStats ==
    <<[priority |-> "Normal", wanted |-> TRUE], [priority |-> "High", wanted |-> FALSE]>>

\* A raw torrent with every field present
RawFull(id, name, stalled, status) ==
    [id |-> Some(id), name |-> Some(name), is_stalled |-> Some(stalled),
     status |-> Some(status), percent_done |-> Some(F32_DEN \div 2), eta |-> Some(5400),
     rate_upload |-> Some(0), rate_download |-> Some(1536),
     upload_ratio |-> Some(F32_DEN \div 2), size_when_done |-> Some(2048),
     left_until_done |-> Some(1024), total_size |-> Some(2048),
     uploaded_ever |-> Some(1024), download_dir |-> Some(<<47, 100, 108>>),
     hash_string |-> Some(<<97, 98, 99>>), added_date |-> Some(19675),
     done_date |-> Some(0), error_string |-> Some(<<>>),
     tracker_stats |-> Some(<<RawTracker>>), files |-> Some(RawFiles),
     file_stats |-> Some(RawFileStats)]

Without(t, field) == [t EXCEPT ![field] = None]

\* The raw torrents the service may hold under identity id
SpecPool(id) ==
    {RawFull(id, NameA, FALSE, "Downloading"),
     RawFull(id, IF id % 2 = 1 THEN NameLowerB ELSE NameUpperB, TRUE, "Stopped")}
    \cup (IF id = 2 THEN {Without(RawFull(id, NameA, FALSE, "Downloading"), "eta")}
          ELSE {})

\* The lists of n torrents with pairwise different identities among ids
ListsOf(pool, ids, n) ==
    {s \in [1..n -> UNION {pool[i] : i \in ids}] :
        \E idseq \in [1..n -> ids] :
            /\ \A i, j \in 1..n : i # j => idseq[i] # idseq[j]
            /\ \A i \in 1..n : s[i] \in pool[idseq[i]]}

\* The service's torrents by identity
SpecPools == [id \in TorrentIds |-> SpecPool(id)]

\* torrent_get(None, None): any list of at most MaxTorrents torrents
AllResponses == UNION {ListsOf(SpecPools, TorrentIds, n) : n \in 0..MaxTorrents}

\* torrent_get(None, Some([id])): the torrent of that identity, if there is one
OneResponses(id) == UNION {ListsOf(SpecPools, {id}, n) : n \in 0..1}

StatsPool ==
    {[download_speed |-> 0, upload_speed |-> 0, torrent_count |-> 0],
     [download_speed |-> 1536, upload_speed |-> 1024, torrent_count |-> 2]}

\* The answers of the transport to a request
Answers(req) ==
    {Err} \cup
    CASE req.op = "torrent_get" /\ ~req.filtered -> {Ok(r) : r \in AllResponses}
      [] req.op = "torrent_get" /\ req.filtered ->
            {Ok(r) : r \in OneResponses(req.ids[1])}
      [] req.op = "session_stats" -> {Ok(st) : st \in StatsPool}
      [] req.op = "torrent_action" -> {Ok(<<>>)}

----------------------------------------------------------------------------
(* The run loop. app.rs is not among the sources: construction at startup,  *)
(* the routing of an action to the active view, the order of follow-up      *)
(* actions and the switch of mode follow the specification (4.1, 4.2, 7).   *)

NoWire == [home |-> None, stats |-> None, prop |-> None, prop_mapped |-> None]

Last(act, a, failed) == [act |-> act, arg |-> a, failed |-> failed]

\* The identity of the selected row, if a row is selected
SelectedId(its, sel) ==
    IF IsSome(sel) /\ Unwrap(sel) < Len(its) THEN Some(its[Unwrap(sel) + 1].id) ELSE None

Init ==
    /\ phase = "startup"
    /\ mode = "Home"
    /\ items = <<>>
    /\ selected = None
    /\ stats = None
    /\ data = None
    /\ selected_tab = "Info"
    /\ followups = <<>>
    /\ last = Last("none", "", {})
    /\ reqs = <<>>
    /\ wire = NoWire
    /\ focus = None
    /\ arg = <<>>
    /\ ret = <<>>
    /\ LoopAtRest

\* The List screen is built: Home::new, then SessionStat::new. rh and rs are
\* the transport's answers. Gives the new values, or says why it failed.
HomeWith(h, st, rh, rs) ==
    [panic |-> rh.ok /\ get_torrent_data_panics(rh.body),
     ok |-> h.ok /\ st.ok,
     items |-> h.items,
     selected |-> h.selected,
     stats |-> st.stats,
     reqs |-> IF h.ok THEN <<GetAll("Home"), GetStats>> ELSE <<GetAll("Home")>>,
     wire |-> [NoWire EXCEPT !.home = Some(rh.body), !.stats = Some(rs.body)]]

BuildHome(rh, rs) == HomeWith(Home_new(rh), SessionStat_new(rs), rh, rs)

\* What the start of main leaves behind: url.parse()? gives the client or ends
\* main, App::new builds the List screen or ends main
StartupWith(parsed, b, rh, rs) ==
    [phase |-> IF ~parsed THEN "failed"
               ELSE IF b.panic THEN "panic" ELSE IF b.ok THEN "run" ELSE "failed",
     built |-> parsed /\ ~b.panic /\ b.ok,
     reqs |-> IF parsed THEN b.reqs ELSE <<>>,
     failed |-> IF ~parsed THEN {"TransClient"}
                ELSE IF ~rh.ok THEN {"Home"}
                ELSE IF ~b.panic /\ ~rs.ok THEN {"SessionStat"} ELSE {}]

\* main: the url is parsed and the client made, then App::new builds the List
\* screen; a failure of either ends the program before the loop is entered
Startup ==
    /\ phase = "startup"
    /\ \E parsed \in BOOLEAN, rh \in Answers(GetAll("Home")), rs \in Answers(GetStats) :
        \E b \in {BuildHome(rh, rs)} : \E m \in {StartupWith(parsed, b, rh, rs)} :
            /\ phase' = m.phase
            /\ items' = IF m.built THEN b.items ELSE items
            /\ selected' = IF m.built THEN b.selected ELSE selected
            /\ stats' = IF m.built THEN b.stats ELSE stats
            /\ wire' = IF m.built THEN b.wire ELSE wire
            /\ reqs' = m.reqs
            /\ last' = Last("Startup", "", m.failed)
    /\ UNCHANGED <<mode, data, selected_tab, followups, focus, arg, ret, loopVars>>

\* A key event reaches the List view. The transport's answer is an input of
\* the keys that issue a request (p, s, S), the build's overflow checks one of
\* the keys that compute an index (j, k)
HomeKey(code) ==
    /\ phase = "run" /\ mode = "Home" /\ followups = <<>>
    /\ \E res \in (IF code \in {"p", "s", "S"} THEN Answers(SetAction("Start", <<>>))
                   ELSE {Err}),
          checks \in (IF code \in {"j", "Down", "k", "Up"} THEN BOOLEAN ELSE {FALSE}) :
        \E r \in {Home_handle_key_event(code, items, selected, res, checks)} :
            /\ phase' = IF r.panic THEN "panic" ELSE phase
            /\ selected' = r.selected
            /\ followups' = IF r.panic THEN followups ELSE r.followup
            /\ reqs' = r.reqs
            /\ last' = Last("Key", code,
                            IF r.reqs # <<>> /\ ~res.ok THEN {"Home"} ELSE {})
    /\ UNCHANGED <<mode, items, stats, data, selected_tab, wire, focus, arg, ret, loopVars>>

\* A key event reaches the Detail view
PropertiesKey(code) ==
    /\ phase = "run" /\ mode = "Properties" /\ followups = <<>>
    /\ \E r \in {Properties_handle_key_event(code, selected_tab)} :
           /\ selected_tab' = r.selected_tab
           /\ followups' = r.followup
    /\ reqs' = <<>>
    /\ last' = Last("Key", code, {})
    /\ UNCHANGED <<phase, mode, items, selected, stats, data, wire, focus, arg, ret, loopVars>>

\* A Tick reaches the List screen: Home::update, then SessionStat::update
HomeTick ==
    /\ phase = "run" /\ mode = "Home" /\ followups = <<>>
    /\ \E rh \in Answers(GetAll("Home")), rs \in Answers(GetStats) :
        \E h \in {Home_update(Tick, items, rh)},
           st \in {SessionStat_update(Tick, stats, rs)},
           panic \in {rh.ok /\ get_torrent_data_panics(rh.body)} :
            /\ phase' = IF panic THEN "panic" ELSE phase
            /\ items' = IF panic THEN items ELSE h.items
            /\ stats' = IF panic THEN stats ELSE st.stats
            /\ followups' = IF panic THEN followups ELSE h.followup \o st.followup
            /\ reqs' = IF panic THEN Home_update_reqs(Tick)
                       ELSE Home_update_reqs(Tick) \o SessionStat_update_reqs(Tick)
            /\ wire' = IF panic THEN wire
                       ELSE [wire EXCEPT
                               !.home = IF rh.ok THEN Some(rh.body) ELSE @,
                               !.stats = IF rs.ok THEN Some(rs.body) ELSE @]
            /\ last' = Last("Tick", "",
                            (IF rh.ok THEN {} ELSE {"Home"})
                            \cup (IF panic \/ rs.ok THEN {} ELSE {"SessionStat"}))
    /\ UNCHANGED <<mode, selected, data, selected_tab, focus, arg, ret, loopVars>>

\* A Tick reaches the Detail view: Properties::update
PropertiesTick ==
    /\ phase = "run" /\ mode = "Properties" /\ followups = <<>>
    /\ \E rp \in Answers(Properties_request) :
        \E p \in {Properties_update(Tick, data, rp)} :
            /\ data' = p.data
            /\ followups' = p.followup
            /\ wire' = [wire EXCEPT
                          !.prop = IF rp.ok THEN Some(rp.body) ELSE @,
                          !.prop_mapped = IF Properties_map(rp).ok
                                          THEN Some(rp.body) ELSE @]
            /\ last' = Last("Tick", "", IF rp.ok THEN {} ELSE {"Properties"})
    /\ reqs' = Properties_update_reqs(Tick)
    /\ UNCHANGED <<phase, mode, items, selected, stats, selected_tab, focus, arg, ret, loopVars>>

\* A Render reaches the active view: its update does nothing, its draw draws
RenderAct ==
    /\ phase = "run" /\ followups = <<>>
    /\ items' = IF mode = "Home" THEN Home_update(Render, items, Err).items ELSE items
    /\ stats' = IF mode = "Home" THEN SessionStat_update(Render, stats, Err).stats
                ELSE stats
    /\ data' = IF mode = "Properties" THEN Properties_update(Render, data, Err).data
               ELSE data
    /\ \E drawn \in {Home_draw(items, selected), Home_draw_unselects(items, selected)} :
          selected' = IF mode = "Home" THEN drawn ELSE selected
    /\ reqs' = IF mode = "Home"
               THEN Home_update_reqs(Render) \o SessionStat_update_reqs(Render)
               ELSE Properties_update_reqs(Render)
    /\ last' = Last("Render", "", {})
    /\ UNCHANGED <<phase, mode, selected_tab, followups, wire, focus, arg, ret, loopVars>>

\* The follow-up action Quit ends the loop
QuitAct ==
    /\ phase = "run" /\ followups # <<>> /\ Head(followups) = Quit
    /\ phase' = "quit"
    /\ followups' = Tail(followups)
    /\ reqs' = <<>>
    /\ last' = Last("Quit", "", {})
    /\ UNCHANGED <<mode, items, selected, stats, data, selected_tab, wire, focus,
                   arg, ret, loopVars>>

\* A follow-up action Error or ClearScreen goes to the status sink or the
\* terminal, and through the update of the active view
PassAct ==
    /\ phase = "run" /\ followups # <<>>
    /\ Head(followups).type \in {"Error", "ClearScreen"}
    /\ LET a == Head(followups)
       IN  /\ items' = IF mode = "Home" THEN Home_update(a, items, Err).items ELSE items
           /\ stats' = IF mode = "Home" THEN SessionStat_update(a, stats, Err).stats
                       ELSE stats
           /\ data' = IF mode = "Properties" THEN Properties_update(a, data, Err).data
                      ELSE data
           /\ reqs' = IF mode = "Home"
                      THEN Home_update_reqs(a) \o SessionStat_update_reqs(a)
                      ELSE Properties_update_reqs(a)
           /\ last' = Last(a.type, a.arg, {})
    /\ followups' = Tail(followups)
    /\ UNCHANGED <<phase, mode, selected, selected_tab, wire, focus, arg, ret, loopVars>>

\* The follow-up action Mode(Properties): the Detail view is built and
\* replaces the List screen; a failure to build it is reported as an Error
\* and the mode stays
EnterProperties ==
    /\ phase = "run" /\ followups # <<>> /\ Head(followups) = ModeAct("Properties")
    /\ mode = "Home"
    /\ \E rp \in Answers(Properties_request) :
        \E p \in {Properties_new(rp)} :
            /\ mode' = IF p.ok THEN "Properties" ELSE mode
            /\ data' = p.data
            /\ selected_tab' = p.selected_tab
            /\ items' = IF p.ok THEN <<>> ELSE items
            /\ selected' = IF p.ok THEN None ELSE selected
            /\ stats' = IF p.ok THEN None ELSE stats
            /\ wire' = IF p.ok
                       THEN [NoWire EXCEPT !.prop = Some(rp.body),
                                           !.prop_mapped = Some(rp.body)]
                       ELSE wire
            /\ followups' = IF p.ok THEN Tail(followups)
                            ELSE Tail(followups) \o <<ErrorAct(p.error)>>
            /\ last' = Last("Mode", "Properties", IF p.ok THEN {} ELSE {"Properties"})
            /\ focus' = IF p.ok THEN SelectedId(items, selected) ELSE focus
    /\ reqs' = <<Properties_request>>
    /\ UNCHANGED <<phase, arg, ret, loopVars>>

\* The follow-up action Mode(Home): the List screen is built anew and replaces
\* the Detail view; a failure to build it is reported as an Error and the mode
\* stays
EnterHome ==
    /\ phase = "run" /\ followups # <<>> /\ Head(followups) = ModeAct("Home")
    /\ mode = "Properties"
    /\ \E rh \in Answers(GetAll("Home")), rs \in Answers(GetStats) :
        \E b \in {BuildHome(rh, rs)} : \E done \in {~b.panic /\ b.ok} :
            /\ phase' = IF b.panic THEN "panic" ELSE phase
            /\ mode' = IF done THEN "Home" ELSE mode
            /\ items' = IF done THEN b.items ELSE items
            /\ selected' = IF done THEN b.selected ELSE selected
            /\ stats' = IF done THEN b.stats ELSE stats
            /\ data' = IF done THEN None ELSE data
            /\ selected_tab' = IF done THEN "Info" ELSE selected_tab
            /\ wire' = IF done THEN b.wire ELSE wire
            /\ followups' = IF b.panic THEN followups
                            ELSE IF done THEN Tail(followups)
                            ELSE Tail(followups) \o <<ErrorAct(E_TRANSPORT)>>
            /\ reqs' = b.reqs
            /\ last' = Last("Mode", "Home", IF done THEN {} ELSE {"Home"})
            /\ focus' = IF done THEN None ELSE focus
    /\ UNCHANGED <<arg, ret, loopVars>>

Next ==
    \/ Startup
    \/ \E code \in KeyCodes : HomeKey(code)
    \/ \E code \in KeyCodes : PropertiesKey(code)
    \/ HomeTick
    \/ PropertiesTick
    \/ RenderAct
    \/ QuitAct
    \/ PassAct
    \/ EnterProperties
    \/ EnterHome

Spec == Init /\ [][Next]_vars

----------------------------------------------------------------------------
(* Properties of the List view's refresh *)

\* a is not greater than b in ordinal (byte) order
ByteLeq(a, b) ==
    \/ Len(a) <= Len(b) /\ SubSeq(b, 1, Len(a)) = a
    \/ \E k \in 1..Min2(Len(a), Len(b)) :
            /\ SubSeq(a, 1, k - 1) = SubSeq(b, 1, k - 1)
            /\ a[k] < b[k]

\* out is inp rearranged so that names ascend and equal names keep inp's order
IsStableSortByName(out, inp) ==
    /\ Len(out) = Len(inp)
    /\ \E f \in Permutations(1..Len(inp)) :
        /\ \A i \in 1..Len(inp) : out[i] = inp[f[i]]
        /\ \A i, j \in 1..Len(inp) :
              i < j => /\ ByteLeq(out[i].name, out[j].name)
                       /\ (out[i].name = out[j].name => f[i] < f[j])

\* The last dispatch was a Tick of the List view whose request succeeded
HomeTickSucceeded ==
    /\ phase = "run" /\ mode = "Home"
    /\ last.act = "Tick" /\ "Home" \notin last.failed

\* C1: after every Tick of the List view whose transport request succeeds, the
\* List model is the stable sort, by name in ascending byte order, of the items
\* mapped from the response, whatever order the transport returned them in;
\* items of equal name keep their transport order.
C1_TickSortsByName ==
    HomeTickSucceeded =>
        IsStableSortByName(items, HomeFilterMap(Unwrap(wire.home)))

\* The transport returned "b" before "a" and the model holds "a" before "b"
C1_Witness ==
    /\ HomeTickSucceeded
    /\ Len(items) = 2
    /\ [i \in 1..2 |-> Unwrap(Unwrap(wire.home)[i].name)] = <<NameLowerB, NameA>>
    /\ items[1].id = Unwrap(Unwrap(wire.home)[2].id)
    /\ items[2].id = Unwrap(Unwrap(wire.home)[1].id)

----------------------------------------------------------------------------
(* Properties of the views' models *)

\* The List screen's models are the mapping of the last Ok responses
HomeModelsAreLastResponses ==
    mode = "Home" =>
        /\ items = get_torrent_data(Unwrap(wire.home))
        /\ stats = wire.stats

----------------------------------------------------------------------------
(* The mappers on their own: get_torrent_data of home.rs and              *)
(* map_torrent_data of data.rs applied to a response of the transport     *)

RawFields == DOMAIN RawFull(1, NameA, FALSE, "Stopped")

\* The raw torrents of the mappers' inputs: complete ones, ones that lack
\* one field, ones whose dates chrono cannot hold, and one with fewer file
\* stats than files
MapPool(id) ==
    IF id = 1 THEN {RawFull(1, NameLowerB, FALSE, "Downloading")}
    ELSE {RawFull(id, NameA, TRUE, "Stopped")}
         \cup {Without(RawFull(id, NameA, TRUE, "Stopped"), f) : f \in RawFields}
         \cup {[RawFull(id, NameA, TRUE, "Stopped") EXCEPT
                    !.added_date = Some(CHRONO_MAX_DAYS + 1)],
               [RawFull(id, NameA, TRUE, "Stopped") EXCEPT
                    !.done_date = Some(-CHRONO_MAX_DAYS - 1)],
               [RawFull(id, NameA, TRUE, "Stopped") EXCEPT
                    !.file_stats = Some(SubSeq(RawFileStats, 1, 1))]}

MapPools == [id \in TorrentIds |-> MapPool(id)]

MapperInputs == UNION {ListsOf(MapPools, TorrentIds, n) : n \in 0..MaxTorrents}

MapperInit ==
    /\ phase = "function"
    /\ mode = "Home"
    /\ items = <<>>
    /\ selected = None
    /\ stats = None
    /\ data = None
    /\ selected_tab = "Info"
    /\ followups = <<>>
    /\ last = Last("none", "", {})
    /\ reqs = <<>>
    /\ wire = NoWire
    /\ focus = None
    /\ arg \in MapperInputs
    /\ ret = <<>>
    /\ LoopAtRest

\* get_torrent_data on the response arg
MapHome ==
    /\ phase = "function" /\ ret = <<>>
    /\ ret' = <<[fn |-> "get_torrent_data", out |-> get_torrent_data(arg)]>>
    /\ UNCHANGED <<appVars, arg, loopVars>>

\* map_torrent_data on the response arg
MapData ==
    /\ phase = "function" /\ ret = <<>>
    /\ ret' = <<[fn |-> "map_torrent_data", out |-> map_torrent_data(arg)]>>
    /\ UNCHANGED <<appVars, arg, loopVars>>

MapperNext == MapHome \/ MapData

MapperSpec == MapperInit /\ [][MapperNext]_vars

\* The fields get_torrent_data reads of a raw torrent
HomeRequired ==
    {"name", "percent_done", "eta", "rate_upload", "rate_download", "upload_ratio",
     "status", "size_when_done", "left_until_done", "id", "is_stalled"}

\* The fields map_torrent_data reads of a raw torrent (file_stats is read per
\* file, not per record)
DataRequired == RawFields \ {"file_stats"}

AllPresent(t, fields) == \A f \in fields : IsSome(t[f])

DatesRepresentable(t) ==
    /\ IsSome(FromTimestamp(Unwrap(t.added_date)))
    /\ IsSome(FromTimestamp(Unwrap(t.done_date)))

\* The raw torrent t has a record in the mapped collection out
Appears(t, out) == IsSome(t.id) /\ \E j \in 1..Len(out) : out[j].id = Unwrap(t.id)

\* The mapper fn maps exactly the torrents of inp that are in complete, and
\* maps them as if the others were not there
MapsExactly(fn, inp, out, complete) ==
    /\ \A i \in 1..Len(inp) : Appears(inp[i], out) <=> inp[i] \in complete
    /\ out = IF fn = "get_torrent_data"
             THEN get_torrent_data(SelectSeq(inp, LAMBDA t : t \in complete))
             ELSE map_torrent_data(SelectSeq(inp, LAMBDA t : t \in complete))

----------------------------------------------------------------------------
(* Properties of a Tick whose request fails *)

\* C4: when the transport request issued by a Tick fails, the view's handler
\* returns an Error(message) follow-up action and leaves its model as it was
\* before the Tick, and the loop goes on.
C4_FailedTickKeepsModel ==
    [][/\ (last'.act = "Tick" /\ "Home" \in last'.failed) =>
            /\ items' = items
            /\ Head(followups') = ErrorAct(E_TRANSPORT)
            /\ phase' = "run"
       /\ (last'.act = "Tick" /\ "SessionStat" \in last'.failed) =>
            /\ stats' = stats
            /\ followups'[Len(followups')] = ErrorAct(E_TRANSPORT)
            /\ phase' = "run"
       /\ (last'.act = "Tick" /\ "Properties" \in last'.failed) =>
            /\ data' = data
            /\ followups' = <<ErrorAct(E_TRANSPORT)>>
            /\ phase' = "run"]_vars

\* A Tick of the List view failed while the list held rows: the rows are
\* still there and the Error waits to be dispatched
C4_Witness ==
    /\ phase = "run" /\ mode = "Home"
    /\ last.act = "Tick" /\ "Home" \in last.failed
    /\ Len(items) = 2
    /\ items = get_torrent_data(Unwrap(wire.home))
    /\ followups # <<>> /\ Head(followups) = ErrorAct(E_TRANSPORT)

----------------------------------------------------------------------------
(* Properties of the switch between the List and the Detail view *)

\* The identity the Detail view asks the transport for
DetailIdentity(rs) == rs[1].ids[1]

\* C5 as stated: select (l or Enter) pressed in the List view while the row of
\* identity i is selected moves the mode to Detail(i): the Detail view is that
\* of the item of the selected row.
C5_SelectCarriesIdentity ==
    [][(mode = "Home" /\ mode' = "Properties" /\ IsSome(SelectedId(items, selected)))
          => DetailIdentity(reqs') = Unwrap(SelectedId(items, selected))]_vars

\* The row the List view selects when it comes back from Detail(i): that of
\* i if i is in the collection, else the first row, or none in an empty one
Reselected(its, i) ==
    IF its = <<>> THEN None
    ELSE IF IsSome(i) /\ \E k \in 1..Len(its) : its[k].id = Unwrap(i)
         THEN Some((CHOOSE k \in 1..Len(its) : its[k].id = Unwrap(i)) - 1)
         ELSE Some(0)

\* C6 as stated: back (Esc) in Detail(i) returns the mode to List, and the
\* List selection is then the row of identity i if i is still in the refreshed
\* collection, otherwise the first row, or none when the collection is empty.
C6_BackReselectsIdentity ==
    [][(mode = "Properties" /\ mode' = "Home")
          => selected' = Reselected(items', focus)]_vars

\* C7: the mode is List at first and always List or Detail; it changes only
\* from List to Detail on select (l or Enter) and from Detail to List on back
\* (Esc), and no Tick, Render or Error action changes it.
C7_ModeChanges ==
    /\ mode = "Home"
    /\ [](mode \in {"Home", "Properties"})
    /\ [][/\ mode' # mode =>
             \/ mode = "Home" /\ mode' = "Properties"
                   /\ Head(followups) = ModeAct("Properties")
             \/ mode = "Properties" /\ mode' = "Home"
                   /\ Head(followups) = ModeAct("Home")
          /\ (followups' # followups /\ ModeAct("Properties") \in Range(followups')) =>
             mode = "Home" /\ last'.act = "Key" /\ last'.arg \in {"l", "Enter"}
          /\ (followups' # followups /\ ModeAct("Home") \in Range(followups')) =>
             mode = "Properties" /\ last'.act = "Key" /\ last'.arg = "Esc"
          /\ last'.act \in {"Tick", "Render", "Error"} => mode' = mode]_vars

\* The List view is back after a stay in the Detail view
C7_Witness ==
    /\ phase = "run" /\ mode = "Home"
    /\ last = Last("Mode", "Home", {})

\* C8 as stated: while the mode is Detail(i), the Detail view is built from,
\* and on every Tick asks the transport for, exactly the item of identity i,
\* the item that was selected in the List view.
C8_DetailQueriesSelected ==
    (mode = "Properties" /\ IsSome(focus) /\ reqs # <<>>) =>
        \A k \in 1..Len(reqs) : reqs[k].filtered /\ reqs[k].ids = <<Unwrap(focus)>>

----------------------------------------------------------------------------
(* Properties of Quit and Error *)

\* C9: the q key in either view produces Quit; the dispatch of Quit ends the
\* loop, and once it has ended no action is dispatched and no request is
\* issued any more.
C9_QuitEndsLoop ==
    [][/\ (last'.act = "Key" /\ last'.arg = "q") =>
             followups' = <<Quit>> /\ reqs' = <<>>
       /\ (followups # <<>> /\ Head(followups) = Quit) => phase' = "quit"
       /\ phase = "quit" => vars' = vars]_vars

\* The loop has ended on a q pressed in the Detail view
C9_Witness ==
    /\ phase = "quit" /\ mode = "Properties"
    /\ last.act = "Quit" /\ reqs = <<>>

\* C10: the dispatch of an Error does not end the loop and changes neither
\* the mode nor the model of a view, and the loop goes on dispatching.
C10_ErrorChangesNothing ==
    /\ [][last'.act = "Error" =>
             /\ phase' = "run" /\ mode' = mode
             /\ items' = items /\ stats' = stats /\ data' = data
             /\ selected' = selected /\ selected_tab' = selected_tab
             /\ reqs' = <<>>]_vars
    /\ [](last.act = "Error" => phase = "run" /\ ENABLED (RenderAct \/ PassAct))

\* An Error has been dispatched while the List view held rows
C10_Witness ==
    /\ phase = "run" /\ mode = "Home"
    /\ last.act = "Error" /\ followups = <<>>
    /\ Len(items) = 2

----------------------------------------------------------------------------
(* Startup *)

\* C14: when the client cannot be made (the url does not parse) or the first
\* request of App::new fails, main ends with phase "failed" and the screen's
\* model still empty, no request follows the failed one, and from "failed" no
\* step is taken: no action is dispatched and nothing is drawn.
C14_StartupFailureIsFatal ==
    /\ [][/\ phase = "startup" /\ last'.failed \cap {"TransClient", "Home"} # {}
             => /\ phase' = "failed"
                /\ UNCHANGED <<mode, items, selected, stats, data, followups>>
                /\ reqs' = IF "Home" \in last'.failed THEN <<GetAll("Home")>> ELSE <<>>
          /\ phase' = "failed" => phase = "startup"
          /\ phase = "failed" => UNCHANGED vars]_vars
    /\ [](phase = "failed" => last.act = "Startup" /\ last.failed # {} /\ items = <<>>)

C14_Witness ==
    /\ phase = "failed"
    /\ last = Last("Startup", "", {"Home"})
    /\ reqs = <<GetAll("Home")>>

----------------------------------------------------------------------------
(* convert_bytes on its own, over the non-negative i64 *)

\* A function called on its own: the application at rest, the input drawn
FunctionInit(inputs) ==
    /\ phase = "function"
    /\ mode = "Home"
    /\ items = <<>>
    /\ selected = None
    /\ stats = None
    /\ data = None
    /\ selected_tab = "Info"
    /\ followups = <<>>
    /\ last = Last("none", "", {})
    /\ reqs = <<>>
    /\ wire = NoWire
    /\ focus = None
    /\ arg \in inputs
    /\ ret = <<>>
    /\ LoopAtRest

\* The digits the inputs are made of: the ends of the range, and 256, whose
\* tenths are a tie (256/1024 = 0.25)
WideDigits == {0, 1, 256, LIMB - 1}

\* Counts from 0 to i64::MAX = 8 * 1024^6 - 1
WideInputs ==
    {[j \in 1..WIDE_LIMBS |-> IF j = WIDE_LIMBS THEN top ELSE low[j]] :
        low \in [1..(WIDE_LIMBS - 1) -> WideDigits], top \in {0, 7}}

BytesInit == FunctionInit(WideInputs)

ConvertBytes ==
    /\ phase = "function" /\ ret = <<>>
    /\ ret' = <<[fn |-> "convert_bytes", out |-> convert_bytes_wide(arg)]>>
    /\ UNCHANGED <<appVars, arg, loopVars>>

BytesNext == ConvertBytes

BytesSpec == BytesInit /\ [][BytesNext]_vars

\* a < c, most significant digit first
WideLt(a, c) ==
    \E j \in 1..Len(a) : a[j] < c[j] /\ \A n \in (j + 1)..Len(a) : a[n] = c[n]

\* 1024^i
Pow1024(i) == [j \in 1..WIDE_LIMBS |-> IF j = i + 1 THEN 1 ELSE 0]

WideZero == [j \in 1..WIDE_LIMBS |-> 0]

\* s is a number with one decimal place: digits, a dot, a digit
OneDecimal(s) ==
    /\ Len(s) >= 3
    /\ s[Len(s) - 1] = CH_dot
    /\ \A n \in 1..Len(s) : n # Len(s) - 1 => s[n] \in CH_zero..(CH_zero + 9)

\* out is a number with one decimal place, a space and the k-th unit
RenderedIn(out, k) ==
    \E n \in 1..Len(out) :
        /\ out[n] = CH_space
        /\ SubSeq(out, n + 1, Len(out)) = UNITS[k + 1]
        /\ OneDecimal(SubSeq(out, 1, n - 1))

\* C19: a count b with 0 <= b < 1024^5 is rendered in the unit k that is the
\* least with b < 1024^(k+1), so 1024^k <= b < 1024^(k+1) when b >= 1 and a
\* count below 1024 is in B; 1024 gives "1.0 KB" and 0 gives "0.0 B".
C19_UnitIsSmallestFit ==
    (ret # <<>> /\ WideLt(arg, Pow1024(5))) =>
        /\ \E k \in 0..4 :
            /\ RenderedIn(ret[1].out, k)
            /\ WideLt(arg, Pow1024(k + 1))
            /\ \A i \in 0..(k - 1) : ~WideLt(arg, Pow1024(i + 1))
            /\ arg # WideZero => ~WideLt(arg, Pow1024(k))
        /\ WideLt(arg, Pow1024(1)) => RenderedIn(ret[1].out, 0)
        /\ arg = Pow1024(1) =>
            ret[1].out = <<CH_zero + 1, CH_dot, CH_zero, CH_space>> \o S_KB
        /\ arg = WideZero =>
            ret[1].out = <<CH_zero, CH_dot, CH_zero, CH_space>> \o S_B

C19_Witness ==
    /\ ret # <<>>
    /\ arg = Pow1024(1)
    /\ ret[1].out = <<CH_zero + 1, CH_dot, CH_zero, CH_space>> \o S_KB

\* C20: a count b >= 1024^5 is rendered in TB with one decimal place.
C20_TopUnitIsTB ==
    (ret # <<>> /\ ~WideLt(arg, Pow1024(5))) => RenderedIn(ret[1].out, 4)

----------------------------------------------------------------------------
(* properties/files.rs: the tree of a torrent's files *)

CH_slash == 47

CH_newline == 10

CH_cr == 13

S_true == <<116, 114, 117, 101>>

S_false == <<102, 97, 108, 115, 101>>

\* str::split(c): the pieces between the occurrences of c, at least one
RECURSIVE Split(_, _)
SplitAt(s, c, hit) ==
    IF IsSome(hit)
    THEN <<SubSeq(s, 1, Unwrap(hit) - 1)>> \o Split(SubSeq(s, Unwrap(hit) + 1, Len(s)), c)
    ELSE <<s>>

Split(s, c) == SplitAt(s, c, FindByte(s, c))

\* str::lines(): the pieces between line feeds, each without a carriage
\* return at its end, and without the empty piece after a final line feed
StripCr(line) ==
    IF line # <<>> /\ line[Len(line)] = CH_cr THEN SubSeq(line, 1, Len(line) - 1)
    ELSE line

LinesOf(pieces) ==
    [n \in 1..(IF pieces[Len(pieces)] = <<>> THEN Len(pieces) - 1 ELSE Len(pieces))
        |-> StripCr(pieces[n])]

Lines(s) == LinesOf(Split(s, CH_newline))

\* Tab::render: format!("{}\n{}\n{}\n{}\n{}", name, downloaded, total_size,
\* priority, wanted) of one data::Files
EncodeFile(f) ==
    f.name \o <<CH_newline>> \o f.downloaded \o <<CH_newline>> \o f.total_size
    \o <<CH_newline>> \o f.priority \o <<CH_newline>>
    \o (IF f.wanted THEN S_true ELSE S_false)

EncodeFiles(files) == [n \in 1..Len(files) |-> EncodeFile(files[n])]

\* str::parse::<bool>()
ParseBool(s) == IF s = S_true THEN Some(TRUE) ELSE IF s = S_false THEN Some(FALSE) ELSE None

\* Node::File(data) and Node::Directory(name, children)
FileNode(d) == [kind |-> "File", name |-> d.name, children |-> <<>>, file |-> Some(d)]

DirectoryNode(name, children) ==
    [kind |-> "Directory", name |-> name, children |-> children, file |-> None]

\* a find that never matches
FindDirectory_Never(children, name) == None

\* children.iter_mut().find(..): the first Directory of that name
FindDirectory(children, name) ==
    First({n \in 1..Len(children) :
              children[n].kind = "Directory" /\ children[n].name = name})

RECURSIVE insert_into_tree(_, _, _)
\* a new Directory put before its siblings
InsertBelow_Front(children, hit, parts, d) ==
    IF IsSome(hit)
    THEN [children EXCEPT ![Unwrap(hit)].children = insert_into_tree(@, Tail(parts), d)]
    ELSE <<DirectoryNode(Head(parts), insert_into_tree(<<>>, Tail(parts), d))>>
         \o children

InsertBelow(children, hit, parts, d) ==
    IF IsSome(hit)
    THEN [children EXCEPT ![Unwrap(hit)].children = insert_into_tree(@, Tail(parts), d)]
    ELSE Append(children,
                DirectoryNode(Head(parts), insert_into_tree(<<>>, Tail(parts), d)))

\* File leaves deduplicated like Directories
insert_into_tree_Dedup(children, parts, d) ==
    IF parts = <<>> THEN children
    ELSE IF Tail(parts) = <<>>
    THEN (IF \E n \in 1..Len(children) :
                children[n].kind = "File" /\ children[n].name = d.name
          THEN children ELSE Append(children, FileNode(d)))
    ELSE InsertBelow(children, FindDirectory(children, Head(parts)), parts, d)

insert_into_tree(children, parts, d) ==
    IF parts = <<>> THEN children
    ELSE IF Tail(parts) = <<>> THEN Append(children, FileNode(d))
    ELSE InsertBelow(children, FindDirectory(children, Head(parts)), parts, d)

\* parse_node's data::Files of one encoded record: the lines vecs and the
\* parts of the first line
ParsedFile(vecs, parts) ==
    [name |-> parts[Len(parts)],
     downloaded |-> vecs[2],
     total_size |-> vecs[3],
     priority |-> vecs[4],
     wanted |-> Unwrap(ParseBool(vecs[Len(vecs)]))]

ParseInto(nodes, vecs, parts) == insert_into_tree(nodes, parts, ParsedFile(vecs, parts))

RECURSIVE ParseFrom(_, _)
ParseFrom(nodes, paths) ==
    IF paths = <<>> THEN nodes
    ELSE ParseFrom(ParseInto(nodes, Lines(Head(paths)),
                             Split(Lines(Head(paths))[1], CH_slash)),
                   Tail(paths))

parse_node(paths) == ParseFrom(<<>>, paths)

\* the identifiers of a TreeItem list: Tree::new and TreeItem::new return Err
\* unless they are pairwise different
Identifiers(nodes) == [n \in 1..Len(nodes) |-> nodes[n].name]

UniqueIdentifiers(ids) == \A m, n \in 1..Len(ids) : m # n => ids[m] # ids[n]

\* map_node: TreeItem::new(name, name, map_node(children)).expect("unique
\* identifier") panics for a Directory whose children share an identifier
RECURSIVE map_node_panics(_)
map_node_panics(nodes) ==
    \E n \in 1..Len(nodes) :
        /\ nodes[n].kind = "Directory"
        /\ \/ map_node_panics(nodes[n].children)
           \/ ~UniqueIdentifiers(Identifiers(nodes[n].children))

\* Tab::render: Tree::new(&map_node(..)).expect("unique identifier")
Tab_render_panics(nodes) ==
    map_node_panics(nodes) \/ ~UniqueIdentifiers(Identifiers(nodes))

\* The files of the inputs: the paths a/b/c, a/b/d, x, a, a/b, and a path whose
\* first segment holds a line feed; each file with a payload of its own
MaxFiles == 3

FileOf(name, n) ==
    [name |-> name,
     downloaded |-> Digits(n) \o <<CH_space>> \o S_B,
     total_size |-> Digits(n) \o <<CH_space>> \o S_KB,
     priority |-> <<S_Low, S_Normal, S_High>>[(n % 3) + 1],
     wanted |-> n % 2 = 1]

FilePool ==
    {FileOf(<<97, CH_slash, 98, CH_slash, 99>>, 1),
     FileOf(<<97, CH_slash, 98, CH_slash, 100>>, 2),
     FileOf(<<120>>, 3),
     FileOf(<<97>>, 4),
     FileOf(<<97, CH_slash, 98>>, 5),
     FileOf(<<97, CH_newline, 98, CH_slash, 99>>, 6)}

TreeInputs == UNION {[1..n -> FilePool] : n \in 0..MaxFiles}

TreeInit == FunctionInit(TreeInputs)

\* Tab::render over the encoded files arg: parse_node, then map_node and Tree::new
BuildTree ==
    /\ phase = "function" /\ ret = <<>>
    /\ \E nodes \in {parse_node(EncodeFiles(arg))} :
          ret' = <<[fn |-> "parse_node", out |-> nodes,
                    panics |-> Tab_render_panics(nodes)]>>
    /\ UNCHANGED <<appVars, arg, loopVars>>

TreeNext == BuildTree

TreeSpec == TreeInit /\ [][TreeNext]_vars

\* The File leaves of a forest from first to last, each with the names of the
\* Directories above it and its own name
RECURSIVE LeavesOf(_, _)
LeavesOf(nodes, above) ==
    IF nodes = <<>> THEN <<>>
    ELSE (IF Head(nodes).kind = "File"
          THEN <<[parts |-> Append(above, Head(nodes).name),
                  file |-> Unwrap(Head(nodes).file)]>>
          ELSE LeavesOf(Head(nodes).children, Append(above, Head(nodes).name)))
         \o LeavesOf(Tail(nodes), above)

\* as many of s as of t equal x, for every x
SameBag(s, t) ==
    /\ Len(s) = Len(t)
    /\ \A x \in Range(s) \cup Range(t) :
        Cardinality({n \in 1..Len(s) : s[n] = x}) = Cardinality({n \in 1..Len(t) : t[n] = x})

\* The path parse_node reads off an encoded file: the parts of its first line
PathRead(f) == Split(Lines(EncodeFile(f))[1], CH_slash)

PartsOf(leaves) == [n \in 1..Len(leaves) |-> leaves[n].parts]

\* the forest of the paths a/b/c, a/b/d, x
ExampleForest ==
    <<DirectoryNode(<<97>>,
        <<DirectoryNode(<<98>>,
            <<FileNode([FileOf(<<99>>, 1) EXCEPT !.name = <<99>>]),
              FileNode([FileOf(<<100>>, 2) EXCEPT !.name = <<100>>])>>)>>),
      FileNode(FileOf(<<120>>, 3))>>

ExampleFiles ==
    <<FileOf(<<97, CH_slash, 98, CH_slash, 99>>, 1),
      FileOf(<<97, CH_slash, 98, CH_slash, 100>>, 2),
      FileOf(<<120>>, 3)>>

\* C15: the File leaves of the forest, each under the chain of Directories
\* s1..s(n-1) and named sn, are the paths s1/../sn that parse_node read, one
\* leaf for each path and two for a path read twice; a/b/c, a/b/d, x give
\* Directory a holding Directory b holding Files c and d, next to File x.
C15_OneLeafPerPath ==
    ret # <<>> =>
        /\ SameBag(PartsOf(LeavesOf(ret[1].out, <<>>)),
                   [n \in 1..Len(arg) |-> PathRead(arg[n])])
        /\ arg = ExampleFiles => ret[1].out = ExampleForest

C15_Witness ==
    /\ ret # <<>>
    /\ Len(arg) = 3 /\ arg[1] = arg[3] /\ arg[1] = FileOf(<<97, CH_slash, 98, CH_slash, 99>>, 1)
    /\ arg[2] = FileOf(<<120>>, 3)
    /\ Len(ret[1].out) = 2
    /\ Len(ret[1].out[1].children[1].children) = 2

\* no two Directories among the siblings have the same name, at every level
RECURSIVE UniqueDirectories(_)
UniqueDirectories(nodes) ==
    /\ \A m, n \in 1..Len(nodes) :
        (/\ m # n
         /\ nodes[m].kind = "Directory"
         /\ nodes[n].kind = "Directory") => nodes[m].name # nodes[n].name
    /\ \A n \in 1..Len(nodes) : UniqueDirectories(nodes[n].children)

\* C16: at every level of the built tree no two sibling Directories have the
\* same name.
C16_SiblingDirectoriesUnique == ret # <<>> => UniqueDirectories(ret[1].out)

C16_Witness ==
    /\ ret # <<>>
    /\ Len(arg) = 3
    /\ \A n \in 1..3 : Len(PathRead(arg[n])) = 3
    /\ arg[1] # arg[2]
    /\ Len(ret[1].out) = 1
    /\ Len(ret[1].out[1].children) = 1
    /\ Len(ret[1].out[1].children[1].children) = 3

\* the siblings old are the first of the siblings new, in the same order, with
\* the same kind, name and payload, and so at every level below
RECURSIVE Extends(_, _)
Extends(new, old) ==
    /\ Len(old) <= Len(new)
    /\ \A n \in 1..Len(old) :
        /\ new[n].kind = old[n].kind
        /\ new[n].name = old[n].name
        /\ new[n].file = old[n].file
        /\ Extends(new[n].children, old[n].children)

\* C17: siblings are in first-seen order: the tree of the first n paths is the
\* tree of the first n-1 with the new nodes of path n after every sibling that
\* was there, nothing reordered or removed.
C17_FirstSeenOrder ==
    ret # <<>> =>
        \A n \in 1..Len(arg) :
            Extends(parse_node(EncodeFiles(SubSeq(arg, 1, n))),
                    parse_node(EncodeFiles(SubSeq(arg, 1, n - 1))))

C17_Witness ==
    /\ ret # <<>>
    /\ arg = <<FileOf(<<120>>, 3), FileOf(<<97, CH_slash, 98>>, 5), FileOf(<<97>>, 4)>>
    /\ ret[1].out[1].name = <<120>>
    /\ ret[1].out[2].kind = "Directory"
    /\ ret[1].out[3].kind = "File" /\ ret[1].out[3].name = <<97>>

\* The leaf a File Record should give: its path's parts, the last of them as
\* the name, and its payload
LeafOf(f) ==
    [parts |-> Split(f.name, CH_slash),
     file |-> [f EXCEPT !.name = Split(f.name, CH_slash)[Len(Split(f.name, CH_slash))]]]

\* C18: the File leaves carry the payloads of the File Records that produced
\* them, unchanged, each under the name of the last segment of its path.
C18_LeafCarriesPayload ==
    ret # <<>> =>
        SameBag(LeavesOf(ret[1].out, <<>>), [n \in 1..Len(arg) |-> LeafOf(arg[n])])

----------------------------------------------------------------------------
(* The merged action stream and the order of dispatch. tui.rs and app.rs    *)
(* are not among the sources: the sources of events, the choice of the     *)
(* next action and the queue of follow-up actions follow the               *)
(* specification (4.1, 5). What a dispatch does to the views is Spec's     *)
(* matter; here the views are at rest and only their follow-ups count.     *)

\* how many events the terminal and the timers produce
MaxEvents == 3

StreamKeys == {"q", "l", "p", "Esc"}

\* an action waiting in the stream or dispatched: where it came from, and the
\* number of its production (a follow-up has the number of the external
\* action whose dispatch produced it). stream.pulled is the number of the
\* external action dispatched last, stream.waited how many others waited then
Event(src, act, stamp) == [src |-> src, act |-> act, stamp |-> stamp]

\* The input source or a timer produces an action
Produce(src, act) ==
    /\ phase = "run"
    /\ stream.produced < MaxEvents
    /\ stream' = [stream EXCEPT
                    ![src] = Append(@, Event(src, act, stream.produced + 1)),
                    !.produced = @ + 1]
    /\ UNCHANGED <<appVars, fnVars, dispatched, client, tasks>>

KeyPressed(code) == Produce("input", Key(code))

TimerFired(act) == Produce("timer", act)

\* a choice in order of production, whatever the source
NextExternal_Fifo(s) ==
    IF s.input # <<>> /\ (s.timer = <<>> \/ Head(s.input).stamp < Head(s.timer).stamp)
    THEN Head(s.input) ELSE Head(s.timer)

\* The next action of the merged stream: an input event if one is ready, else
\* the oldest action of the timers
NextExternal(s) == IF s.input # <<>> THEN Head(s.input) ELSE Head(s.timer)

\* The follow-up actions the handlers of the active view return for an
\* action, rh and rs being the transport's answers to a Tick's requests
Reaction(m, act, rh, rs) ==
    IF act.type = "Key"
    THEN IF m = "Home"
         THEN Home_handle_key_event(act.arg, items, selected, rh, FALSE).followup
         ELSE Properties_handle_key_event(act.arg, selected_tab).followup
    ELSE IF m = "Home"
         THEN Home_update(act, items, rh).followup
              \o SessionStat_update(act, stats, rs).followup
         ELSE Properties_update(act, data, rh).followup

\* The loop pulls the next external action and dispatches it to the handlers
\* of the active view; what they return waits as follow-up actions
Pull ==
    /\ phase = "run" /\ followups = <<>>
    /\ stream.input # <<>> \/ stream.timer # <<>>
    /\ \E e \in {NextExternal(stream)}, rh \in {Ok(<<>>), Err}, rs \in {Ok(<<>>), Err} :
        /\ dispatched' = Append(dispatched, e)
        /\ stream' = [stream EXCEPT
                        ![e.src] = Tail(@),
                        !.pulled = e.stamp,
                        !.waited = Len(stream.input) + Len(stream.timer) - 1]
        /\ followups' = Reaction(mode, e.act, rh, rs)
    /\ UNCHANGED <<phase, mode, items, selected, stats, data, selected_tab, last,
                   reqs, wire, focus, fnVars, client, tasks>>

\* The loop dispatches the oldest follow-up action: Quit ends the loop, Mode
\* switches the view or, the view not built, is answered with an Error
Follow ==
    /\ phase = "run" /\ followups # <<>>
    /\ \E a \in {Head(followups)}, built \in BOOLEAN :
        /\ dispatched' = Append(dispatched, Event("followup", a, stream.pulled))
        /\ phase' = IF a.type = "Quit" THEN "quit" ELSE phase
        /\ mode' = IF a.type = "Mode" /\ built THEN a.arg ELSE mode
        /\ followups' = IF a.type = "Mode" /\ ~built
                        THEN Tail(followups) \o <<ErrorAct(E_TRANSPORT)>>
                        ELSE Tail(followups)
    /\ UNCHANGED <<items, selected, stats, data, selected_tab, last, reqs, wire,
                   focus, fnVars, stream, client, tasks>>

\* the loop entered, the List view at rest, nothing produced or borrowed yet
RunInit ==
    /\ phase = "run"
    /\ mode = "Home"
    /\ items = <<>>
    /\ selected = None
    /\ stats = None
    /\ data = None
    /\ selected_tab = "Info"
    /\ followups = <<>>
    /\ last = Last("none", "", {})
    /\ reqs = <<>>
    /\ wire = NoWire
    /\ focus = None
    /\ arg = <<>>
    /\ ret = <<>>
    /\ LoopAtRest

StreamNext ==
    \/ \E code \in StreamKeys : KeyPressed(code)
    \/ \E act \in {Tick, Render} : TimerFired(act)
    \/ Pull
    \/ Follow

StreamSpec == RunInit /\ [][StreamNext]_vars

\* C11: a follow-up action a handler returned is dispatched before the next
\* external action, also when external actions were waiting: what the List
\* view's key handler returns for q, l and p is queued, a queued follow-up is
\* what the loop dispatches next, and in the order of dispatch every
\* follow-up comes right after the action that produced it or after another
\* follow-up of that action.
C11_FollowUpFirst ==
    /\ [][/\ (followups # <<>> /\ dispatched' # dispatched)
             => dispatched' = Append(dispatched,
                                     Event("followup", Head(followups), stream.pulled))
          /\ (followups = <<>> /\ dispatched' # dispatched /\ mode = "Home")
             => /\ dispatched'[Len(dispatched')].act = Key("q")
                   => followups' = <<Quit>>
                /\ dispatched'[Len(dispatched')].act = Key("l")
                   => followups' = <<ModeAct("Properties")>>
                /\ dispatched'[Len(dispatched')].act = Key("p")
                   => followups' = <<ErrorAct(E_NO_ROW)>>]_vars
    /\ [](\A n \in 1..Len(dispatched) :
            dispatched[n].src = "followup"
            => n > 1 /\ dispatched[n - 1].stamp = dispatched[n].stamp)

C11_Witness ==
    /\ dispatched # <<>>
    /\ dispatched[Len(dispatched)].src = "followup"
    /\ stream.waited > 0
    /\ stream.timer # <<>>
    /\ Head(stream.timer).stamp < stream.pulled

\* C12: the loop takes an input event when one is ready, else the oldest
\* action of the timers; so in the order of dispatch an external action
\* comes before one produced earlier only if it is an input event and the
\* other an action of a timer, and no action overtakes one of its own source.
C12_InputFirstElseFifo ==
    /\ [][(dispatched' # dispatched /\ dispatched'[Len(dispatched')].src # "followup")
          => dispatched'[Len(dispatched')] =
                IF stream.input # <<>> THEN Head(stream.input) ELSE Head(stream.timer)]_vars
    /\ [](\A m, n \in 1..Len(dispatched) :
            (/\ m < n
             /\ dispatched[m].src # "followup"
             /\ dispatched[n].src # "followup"
             /\ dispatched[m].stamp > dispatched[n].stamp)
            => dispatched[m].src = "input" /\ dispatched[n].src = "timer")

C12_Witness ==
    /\ Len(dispatched) >= 3
    /\ dispatched[1] = Event("input", Key("p"), 2)
    /\ dispatched[2].src = "followup"
    /\ dispatched[3] = Event("timer", Tick, 1)

----------------------------------------------------------------------------
(* The shared client, one request at a step. Every use of the client in     *)
(* the sources is a future of one shape: client.borrow_mut(), then an       *)
(* async move block that holds the RefMut over the await of the request.   *)
(* The sources run each future with block_on, one after the other; that a  *)
(* second future is started while one awaits is the situation of the       *)
(* specification (5, 7), not one a source file brings about.               *)

\* how many futures are started
MaxTasks == 3

ClientFutures == {"get_torrent_data", "get_stats", "start_all"}

\* the request each future puts to the client
RequestOf(fn, its) ==
    CASE fn = "get_torrent_data" -> GetAll("Home")
      [] fn = "get_stats" -> GetStats
      [] fn = "start_all" -> SetAction("Start", AllIds(its))

\* a borrow that does not look at the flag
borrow_mut_Unchecked(c) == [panic |-> FALSE, client |-> [c EXCEPT !.borrowed = TRUE]]

\* RefCell::borrow_mut: panics ("already borrowed: BorrowMutError") if the
\* value is borrowed, else marks it borrowed
borrow_mut(c) == [panic |-> c.borrowed, client |-> [c EXCEPT !.borrowed = TRUE]]

\* A future is started and runs to its await: it borrows the client and
\* puts its request, or panics in borrow_mut
Call(fn) ==
    /\ phase = "run"
    /\ Len(tasks) < MaxTasks
    /\ \E b \in {borrow_mut(client)}, req \in {RequestOf(fn, items)} :
        /\ phase' = IF b.panic THEN "panic" ELSE phase
        /\ client' = IF b.panic THEN client
                     ELSE [b.client EXCEPT !.in_flight = Append(@, req)]
        /\ tasks' = Append(tasks, [fn |-> fn, req |-> req,
                                   pc |-> IF b.panic THEN "panicked" ELSE "awaiting"])
    /\ UNCHANGED <<mode, items, selected, stats, data, selected_tab, followups, last,
                   reqs, wire, focus, fnVars, stream, dispatched>>

\* the requests in flight without the first that equals req
RECURSIVE Without1(_, _)
Without1(s, req) ==
    IF s = <<>> THEN <<>>
    ELSE IF Head(s) = req THEN Tail(s) ELSE <<Head(s)>> \o Without1(Tail(s), req)

\* The answers to a request: an error, or a response of at most one torrent
TaskAnswers(req) ==
    IF req.op = "torrent_get"
    THEN {Err} \cup {Ok(r) : r \in {x \in AllResponses : Len(x) <= 1}}
    ELSE Answers(req)

\* The transport answers the request of future t: the await ends, the RefMut
\* is dropped with the async block, and block_on's caller takes the result
\* (Home::update and SessionStat::update assign it to the model)
Answer(t) ==
    /\ phase = "run"
    /\ tasks[t].pc = "awaiting"
    /\ \E res \in TaskAnswers(tasks[t].req) :
        /\ items' = IF tasks[t].fn = "get_torrent_data"
                    THEN Home_update(Tick, items, res).items ELSE items
        /\ stats' = IF tasks[t].fn = "get_stats"
                    THEN SessionStat_update(Tick, stats, res).stats ELSE stats
    /\ client' = [borrowed |-> FALSE, in_flight |-> Without1(client.in_flight, tasks[t].req)]
    /\ tasks' = [tasks EXCEPT ![t].pc = "done"]
    /\ UNCHANGED <<phase, mode, selected, data, selected_tab, followups, last, reqs,
                   wire, focus, fnVars, stream, dispatched>>

TransportNext ==
    \/ \E fn \in ClientFutures : Call(fn)
    \/ \E t \in 1..Len(tasks) : Answer(t)

TransportSpec == RunInit /\ [][TransportNext]_vars

\* C13: at most one request is in flight on the client and it is in flight
\* only under the borrow; a future started while a request is in flight
\* panics in borrow_mut in that very step, puts no request of its own and
\* changes neither the client nor a view's model.
C13_OneRequestInFlight ==
    /\ [](/\ Len(client.in_flight) <= 1
          /\ client.in_flight # <<>> => client.borrowed
          /\ Cardinality({t \in 1..Len(tasks) : tasks[t].pc = "awaiting"})
             = Len(client.in_flight))
    /\ [][(Len(tasks') > Len(tasks) /\ client.in_flight # <<>>)
          => /\ phase' = "panic"
             /\ tasks'[Len(tasks')].pc = "panicked"
             /\ UNCHANGED <<client, items, stats, data>>]_vars

C13_Witness ==
    /\ phase = "panic"
    /\ Len(client.in_flight) = 1
    /\ Len(tasks) = 2
    /\ tasks[1].pc = "awaiting"
    /\ tasks[2].pc = "panicked"

----------------------------------------------------------------------------
(* utils.rs: convert_eta, convert_percentage and handle_ratio on their own *)

DAY == 86400

\* Seconds with every component at its ends: none, one, its largest
EtaInputs ==
    {-3, -2, -1, 2147483647}
    \cup {d * DAY + h * 3600 + m * 60 + s :
            d \in {0, 1, 98, 99}, h \in {0, 1, 23}, m \in {0, 1, 30, 59}, s \in {0, 1, 59}}

\* Done ratios from just below 0 to just above 1, and 2
PercentInputs == (-1..(F32_DEN + 1)) \cup {2 * F32_DEN}

\* Ratios from -2 to 2 in steps of 1/128, and the neighbours of -1 and of 0
RatioInputs ==
    {32 * n : n \in -256..256}
    \cup {-F32_DEN - 1, -F32_DEN + 1, -1, 1}

FormatInputs ==
    {[fn |-> "convert_eta", x |-> e] : e \in EtaInputs}
    \cup {[fn |-> "convert_percentage", x |-> p] : p \in PercentInputs}
    \cup {[fn |-> "handle_ratio", x |-> r] : r \in RatioInputs}

FormatInit == FunctionInit(FormatInputs)

Returns(fn, out) ==
    /\ phase = "function" /\ ret = <<>>
    /\ arg.fn = fn
    /\ ret' = <<[fn |-> fn, out |-> out]>>
    /\ UNCHANGED <<appVars, arg, loopVars>>

ConvertEta == Returns("convert_eta", convert_eta(arg.x))

ConvertPercentage == Returns("convert_percentage", convert_percentage(arg.x))

HandleRatio == Returns("handle_ratio", handle_ratio(arg.x))

FormatNext ==
    \/ ConvertEta
    \/ ConvertPercentage
    \/ HandleRatio

FormatSpec == FormatInit /\ [][FormatNext]_vars

\* fn has returned
Returned(fn) == ret # <<>> /\ ret[1].fn = fn

\* C21: convert_eta returns "Unknown" exactly for eta = -1 and "Inf" exactly
\* for eta = -2 or eta above 99 days; an eta of exactly 99 days is not "Inf".
C21_UnknownAndInf ==
    Returned("convert_eta") =>
        /\ ret[1].out = S_Unknown <=> arg.x = -1
        /\ ret[1].out = S_Inf <=> (arg.x = -2 \/ arg.x > 99 * 86400)
        /\ arg.x = 99 * 86400 => ret[1].out # S_Inf

C21_Witness ==
    /\ Returned("convert_eta")
    /\ arg.x = 99 * 86400
    /\ ret[1].out = <<CH_zero + 9, CH_zero + 9, CH_d>>

\* C22: for 86400 <= eta <= 99 * 86400 convert_eta returns the day component
\* "<eta div 86400>d" alone, without hours, minutes and seconds;
\* convert_eta(86400 + 3600) is "1d".
C22_DaysOnly ==
    (Returned("convert_eta") /\ arg.x >= 86400 /\ arg.x <= 99 * 86400) =>
        /\ ret[1].out = IntStr(arg.x \div 86400) \o <<CH_d>>
        /\ arg.x = 86400 + 3600 => ret[1].out = <<CH_zero + 1, CH_d>>

C22_Witness ==
    /\ Returned("convert_eta")
    /\ arg.x = 86400 + 3600
    /\ ret[1].out = <<CH_zero + 1, CH_d>>

\* a component as the claim writes it: its number and unit, nothing for zero
Component(value, unit) == IF value = 0 THEN <<>> ELSE IntStr(value) \o <<unit>>

UnitSeconds(unit) ==
    CASE unit = CH_d -> 86400
      [] unit = CH_h -> 3600
      [] unit = CH_m -> 60
      [] unit = CH_s -> 1

\* the seconds a text of numbers and units stands for, acc the number being read
RECURSIVE ReadEta(_, _)
ReadEta(s, acc) ==
    IF s = <<>> THEN 0
    ELSE IF Head(s) \in CH_zero..(CH_zero + 9)
         THEN ReadEta(Tail(s), 10 * acc + (Head(s) - CH_zero))
         ELSE acc * UnitSeconds(Head(s)) + ReadEta(Tail(s), 0)

\* C23: for 0 <= eta < 86400 convert_eta returns the nonzero components among
\* hours, minutes and seconds, largest first and without separators (5400
\* gives "1h30m", 3600 gives "1h", 0 gives ""); read back as
\* h * 3600 + m * 60 + s they equal eta.
C23_NonzeroComponents ==
    (Returned("convert_eta") /\ arg.x >= 0 /\ arg.x < 86400) =>
        /\ ret[1].out = Component(arg.x \div 3600, CH_h)
                        \o Component((arg.x % 3600) \div 60, CH_m)
                        \o Component(arg.x % 60, CH_s)
        /\ ReadEta(ret[1].out, 0) = arg.x
        /\ arg.x = 5400 =>
            ret[1].out = <<CH_zero + 1, CH_h, CH_zero + 3, CH_zero, CH_m>>
        /\ arg.x = 3600 => ret[1].out = <<CH_zero + 1, CH_h>>
        /\ arg.x = 0 => ret[1].out = <<>>

C23_Witness ==
    /\ Returned("convert_eta")
    /\ arg.x = 5400
    /\ ret[1].out = <<CH_zero + 1, CH_h, CH_zero + 3, CH_zero, CH_m>>

\* s is a number with so many decimal places, a minus sign allowed
FixedPoint(s, places) ==
    \E digits \in {IF s # <<>> /\ s[1] = CH_minus THEN Tail(s) ELSE s} :
        /\ Len(digits) >= places + 2
        /\ digits[Len(digits) - places] = CH_dot
        /\ \A n \in 1..Len(digits) :
            n # Len(digits) - places => digits[n] \in CH_zero..(CH_zero + 9)

\* the digits of s read as one whole number, the sign and the dot passed over
RECURSIVE ReadFixed(_, _)
ReadFixed(s, acc) ==
    IF s = <<>> THEN acc
    ELSE IF Head(s) \in CH_zero..(CH_zero + 9)
         THEN ReadFixed(Tail(s), 10 * acc + (Head(s) - CH_zero))
         ELSE ReadFixed(Tail(s), acc)

\* s, a number with decimal places in units of 1/scale, is num/den rounded:
\* it has the sign of num and is no more than half a unit away from it
IsRounded(s, num, den, scale) ==
    /\ (s # <<>> /\ s[1] = CH_minus) <=> num < 0
    /\ 2 * Abs(ReadFixed(s, 0) * den - scale * Abs(num)) <= den

\* C24: convert_percentage returns "Done" if and only if the done ratio p is
\* at least 1.0, and for p in [0, 1) returns 100 * p with one decimal place
\* followed by the percent sign.
C24_DoneIffComplete ==
    Returned("convert_percentage") =>
        /\ ret[1].out = S_Done <=> arg.x >= F32_DEN
        /\ (arg.x >= 0 /\ arg.x < F32_DEN) =>
            \E n \in {Len(ret[1].out)} :
                /\ n >= 1
                /\ ret[1].out[n] = CH_percent
                /\ FixedPoint(SubSeq(ret[1].out, 1, n - 1), 1)
                /\ IsRounded(SubSeq(ret[1].out, 1, n - 1), 100 * arg.x, F32_DEN, 10)

C24_Witness ==
    /\ Returned("convert_percentage")
    /\ arg.x = F32_DEN
    /\ ret[1].out = S_Done

\* C25: handle_ratio returns "None" if and only if the ratio is exactly -1,
\* and for every other ratio returns the ratio rounded to two decimal places.
C25_NoneIffMinusOne ==
    Returned("handle_ratio") =>
        /\ ret[1].out = S_None <=> arg.x = -F32_DEN
        /\ arg.x # -F32_DEN =>
            /\ FixedPoint(ret[1].out, 2)
            /\ IsRounded(ret[1].out, arg.x, F32_DEN, 100)

C25_Witness ==
    /\ Returned("handle_ratio")
    /\ arg.x = -F32_DEN
    /\ ret[1].out = S_None

----------------------------------------------------------------------------
(* home.rs: the cursor and the start/stop commands of the List view *)

\* a key reached the List view while row i of n >= 1 rows was selected
CursorKey(codes) ==
    /\ mode = "Home" /\ last'.act = "Key" /\ last'.arg \in codes
    /\ phase' = "run"
    /\ Len(items) >= 1
    /\ IsSome(selected) /\ Unwrap(selected) < Len(items)

\* C26: with row i of n >= 1 rows selected, next selects (i + 1) mod n and
\* previous selects (i - 1) mod n (so the cursor wraps at both ends and next
\* followed by previous restores the selection); first selects row 0 and last
\* selects row n - 1.
C26_CursorWraps ==
    [][/\ CursorKey({"j", "Down"}) =>
             selected' = Some((Unwrap(selected) + 1) % Len(items))
       /\ CursorKey({"k", "Up"}) =>
             selected' = Some((Unwrap(selected) + Len(items) - 1) % Len(items))
       /\ CursorKey({"g"}) => selected' = Some(0)
       /\ CursorKey({"G"}) => selected' = Some(Len(items) - 1)]_vars

\* a start/stop key reached the List view and its handler returned
CommandKey(code) ==
    /\ mode = "Home" /\ last'.act = "Key" /\ last'.arg = code
    /\ phase' = "run"

\* the identities of the rows, in the order of the rows
IdsOf(its) == [i \in 1..Len(its) |-> its[i].id]

\* exactly one request was issued, a torrent_action of this kind for these ids
OneSetAction(issued, kind, ids) ==
    /\ Len(issued) = 1
    /\ issued[1].op = "torrent_action"
    /\ issued[1].action = kind
    /\ issued[1].ids = ids

\* C27: each start/stop key issues exactly one set_action request for the
\* identities of its scope: p names the selected row alone, with Start when
\* the row is stalled and Stop otherwise; s (Start) and S (Stop) name every
\* row of the model; none of them changes the model or the selection.
C27_CommandScope ==
    [][/\ (CommandKey("p") /\ IsSome(selected) /\ Unwrap(selected) < Len(items)) =>
             OneSetAction(reqs',
                          IF items[Unwrap(selected) + 1].is_stalled THEN "Start" ELSE "Stop",
                          <<items[Unwrap(selected) + 1].id>>)
       /\ CommandKey("s") => OneSetAction(reqs', "Start", IdsOf(items))
       /\ CommandKey("S") => OneSetAction(reqs', "Stop", IdsOf(items))
       /\ (CommandKey("p") \/ CommandKey("s") \/ CommandKey("S")) =>
             items' = items /\ selected' = selected]_vars

\* p was pressed on the second of two rows, a stalled one, and Start was sent
\* for it alone
C27_Witness ==
    /\ phase = "run" /\ mode = "Home"
    /\ last.act = "Key" /\ last.arg = "p"
    /\ Len(items) = 2 /\ selected = Some(1)
    /\ items[2].is_stalled
    /\ reqs = <<SetAction("Start", <<items[2].id>>)>>

\* C28: p pressed with no row selected fails with NoRowSelected, and with the
\* selected index past the end of the collection fails with OutOfBound; in
\* both cases no request is issued, the handler returns Error(message), and
\* the model and the selection are unchanged.
C28_ToggleWithoutRow ==
    [][/\ (CommandKey("p") /\ selected = None) =>
             followups' = Some(ErrorAct(E_NO_ROW))
       /\ (CommandKey("p") /\ IsSome(selected) /\ Unwrap(selected) >= Len(items)) =>
             followups' = Some(ErrorAct(E_OUT_OF_BOUND))
       /\ (CommandKey("p") /\ (selected = None \/ Unwrap(selected) >= Len(items))) =>
             /\ reqs' = <<>>
             /\ items' = items /\ selected' = selected]_vars

\* p was pressed after G on a list with rows, before the table was drawn
C28_Witness ==
    /\ phase = "run" /\ mode = "Home"
    /\ last.act = "Key" /\ last.arg = "p"
    /\ Len(items) >= 1 /\ selected = Some(USIZE_MAX)
    /\ followups = Some(ErrorAct(E_OUT_OF_BOUND))
    /\ reqs = <<>>

----------------------------------------------------------------------------
(* properties.rs: the sub-tab selector of the Detail view *)

\* a key reached the Detail view
TabKey(codes) == mode = "Properties" /\ last'.act = "Key" /\ last'.arg \in codes

\* C29: the sub-tab selector does not wrap: next on the last tab and previous
\* on the first tab leave the tab as it is, every other next or previous
\* moves one tab, and the selected tab is always one of the defined tabs.
C29_TabsDoNotWrap ==
    /\ [](selected_tab \in Range(TABS))
    /\ [][/\ TabKey({"l", "Right"}) =>
                TabIndex(selected_tab') =
                    IF TabIndex(selected_tab) = Len(TABS) - 1
                    THEN TabIndex(selected_tab) ELSE TabIndex(selected_tab) + 1
          /\ TabKey({"h", "Left"}) =>
                TabIndex(selected_tab') =
                    IF TabIndex(selected_tab) = 0
                    THEN TabIndex(selected_tab) ELSE TabIndex(selected_tab) - 1]_vars

\* next was pressed and the last tab is selected
C29_Witness ==
    /\ phase = "run" /\ mode = "Properties"
    /\ last.act = "Key" /\ last.arg = "l"
    /\ selected_tab = TABS[Len(TABS)]

----------------------------------------------------------------------------
(* data.rs: the files of a mapped record *)

\* the record rec holds one File Record per file of the raw item t, in order
FilesFullyMapped(rec, t) ==
    /\ Len(rec.files) = Len(Unwrap(t.files))
    /\ \A n \in 1..Len(rec.files) : rec.files[n].name = Unwrap(t.files)[n].name

\* C30: every record of the mapped collection is fully populated: it holds
\* exactly one File Record per file of its raw item, in raw order, so a raw
\* item whose per-file stats are absent or fewer than its files is never
\* included with fewer File Records than it has files.
C30_FilesFullyMapped ==
    (ret # <<>> /\ ret[1].fn = "map_torrent_data") =>
        \A j \in 1..Len(ret[1].out), i \in 1..Len(arg) :
            (IsSome(arg[i].id) /\ Unwrap(arg[i].id) = ret[1].out[j].id) =>
                FilesFullyMapped(ret[1].out[j], arg[i])

----------------------------------------------------------------------------
(* Render *)

\* the dispatch of a Render issued no request and changed no model, tab or mode
RenderKeepsModels ==
    /\ reqs' = <<>>
    /\ items' = items /\ stats' = stats /\ data' = data
    /\ selected_tab' = selected_tab /\ mode' = mode

----------------------------------------------------------------------------
(* home.rs: the cursor on an empty list *)

\* C32: with zero rows next and previous do not underflow len - 1 and leave
\* the selection none or a valid index, never an index past the collection
\* (row 0, where Home::new puts the cursor, is taken for valid here).
C32_EmptyCursorIsSafe ==
    [][(/\ mode = "Home" /\ last'.act = "Key"
        /\ last'.arg \in {"j", "Down", "k", "Up"}
        /\ Len(items) = 0) =>
          /\ phase' # "panic"
          /\ selected' \in {None, Some(0)}]_vars

----------------------------------------------------------------------------
(* properties/files.rs: the identifiers handed to the tree widget *)

\* the siblings of every level, Directories and File leaves together, have
\* pairwise different names
RECURSIVE SiblingsDistinct(_)
SiblingsDistinct(nodes) ==
    /\ \A m, n \in 1..Len(nodes) : m # n => nodes[m].name # nodes[n].name
    /\ \A n \in 1..Len(nodes) : SiblingsDistinct(nodes[n].children)

\* C33: rendering the files tab never fails its "unique identifier"
\* expectation: for every list of File Records the siblings the builder
\* produces at each level have pairwise distinct names.
C33_UniqueIdentifiers ==
    ret # <<>> => (~ret[1].panics /\ SiblingsDistinct(ret[1].out))

----------------------------------------------------------------------------
(* properties/files.rs: scrolling the files tab *)

\* TreeState::scroll_up of tui_tree_widget: the offset less the lines, not below 0
TreeState_scroll_up(offset, lines) == IF lines > offset THEN 0 ELSE offset - lines

\* Tab::scroll_up: self.state.scroll_up(amount)
FilesTab_scroll_up(offset, amount) == TreeState_scroll_up(offset, amount)

\* Tab::scroll_down: self.state.scroll_up(amount)
FilesTab_scroll_down(offset, amount) == TreeState_scroll_up(offset, amount)

\* the largest offset and amount of the inputs
MaxScroll == 5

\* a view at some offset of a tree with rows below it, and an amount
ScrollInputs ==
    [offset : 0..MaxScroll, amount : 0..MaxScroll, below : {MaxScroll}]

ScrollInit == FunctionInit(ScrollInputs)

\* the offset of the view after the calls made so far
Offset == IF ret = <<>> THEN arg.offset ELSE ret[Len(ret)].out

ScrollDown ==
    /\ phase = "function" /\ Len(ret) < 2
    /\ ret' = Append(ret, [fn |-> "scroll_down",
                           out |-> FilesTab_scroll_down(Offset, arg.amount)])
    /\ UNCHANGED <<appVars, arg, loopVars>>

ScrollUp ==
    /\ phase = "function" /\ Len(ret) < 2
    /\ ret' = Append(ret, [fn |-> "scroll_up",
                           out |-> FilesTab_scroll_up(Offset, arg.amount)])
    /\ UNCHANGED <<appVars, arg, loopVars>>

ScrollNext ==
    \/ ScrollDown
    \/ ScrollUp

ScrollSpec == ScrollInit /\ [][ScrollNext]_vars

\* there are amount rows or more below the view
RoomBelow == arg.amount <= arg.below

\* C34: in the files tab scroll_down(amount) moves the view offset down by
\* amount and is the opposite of scroll_up(amount): with room to scroll,
\* scroll_down followed by scroll_up restores the offset, and scroll_down
\* never moves the view up.
C34_ScrollDownGoesDown ==
    /\ (Len(ret) >= 1 /\ ret[1].fn = "scroll_down") =>
          /\ ret[1].out >= arg.offset
          /\ RoomBelow => ret[1].out = arg.offset + arg.amount
    /\ (Len(ret) = 2 /\ ret[1].fn = "scroll_down" /\ ret[2].fn = "scroll_up"
        /\ RoomBelow) => ret[2].out = arg.offset

----------------------------------------------------------------------------
(* The shared client as the sources use it: every future is run to its end  *)
(* by block_on before the handler returns, so a handler is entered only     *)
(* when none is awaiting. Home::toggle_state returns NoRowSelected or       *)
(* OutOfBound before it borrows.                                            *)

HandlerFutures == ClientFutures \cup {"toggle_state", "stop_all"}

\* what a handler does up to its await: Err(message) before the borrow, or
\* Ok(request)
Handler_request(fn, its, sel) ==
    CASE fn = "toggle_state" -> Home_toggle_request(its, sel)
      [] fn = "stop_all" -> Ok(SetAction("Stop", AllIds(its)))
      [] OTHER -> Ok(RequestOf(fn, its))

\* a RefMut that is dropped only when the request succeeded
drop_RefMut_OnOk(c, req, res) ==
    [borrowed |-> ~res.ok, in_flight |-> Without1(c.in_flight, req)]

\* the async move block ends with the answer res and drops the RefMut it owns
drop_RefMut(c, req, res) ==
    [borrowed |-> FALSE, in_flight |-> Without1(c.in_flight, req)]

NoRequest == [op |-> "none"]

HasReturned(t) == tasks[t].pc # "awaiting"

\* block_on(handler): the handler runs to its await, or returns before it
Enter(fn) ==
    /\ phase = "run"
    /\ Len(tasks) < MaxTasks
    /\ \A t \in 1..Len(tasks) : HasReturned(t)
    /\ \E r \in {Handler_request(fn, items, selected)}, b \in {borrow_mut(client)} :
        /\ phase' = IF r.ok /\ b.panic THEN "panic" ELSE phase
        /\ client' = IF r.ok /\ ~b.panic
                     THEN [b.client EXCEPT !.in_flight = Append(@, r.body)]
                     ELSE client
        /\ tasks' = Append(tasks,
                        IF ~r.ok
                        THEN [fn |-> fn, req |-> NoRequest, pc |-> "returned", result |-> r.body]
                        ELSE IF b.panic
                        THEN [fn |-> fn, req |-> r.body, pc |-> "panicked", result |-> "panic"]
                        ELSE [fn |-> fn, req |-> r.body, pc |-> "awaiting", result |-> "pending"])
    /\ UNCHANGED <<mode, items, selected, stats, data, selected_tab, followups, last,
                   reqs, wire, focus, fnVars, stream, dispatched>>

\* the request of handler t is answered: the RefMut is dropped, the handler
\* takes the result and returns
Return(t) ==
    /\ phase = "run"
    /\ tasks[t].pc = "awaiting"
    /\ \E res \in TaskAnswers(tasks[t].req) :
        /\ items' = IF tasks[t].fn = "get_torrent_data"
                    THEN Home_update(Tick, items, res).items ELSE items
        /\ stats' = IF tasks[t].fn = "get_stats"
                    THEN SessionStat_update(Tick, stats, res).stats ELSE stats
        /\ client' = drop_RefMut(client, tasks[t].req, res)
        /\ tasks' = [tasks EXCEPT ![t].pc = "returned",
                                  ![t].result = IF res.ok THEN "Ok" ELSE E_TRANSPORT]
    /\ UNCHANGED <<phase, mode, selected, data, selected_tab, followups, last, reqs,
                   wire, focus, fnVars, stream, dispatched>>

\* the keys g and G between two handlers: Home::top and Home::bottom
Cursor(code) ==
    /\ phase = "run"
    /\ \A t \in 1..Len(tasks) : HasReturned(t)
    /\ selected' = IF code = "g" THEN Home_top(selected) ELSE Home_bottom(selected)
    /\ selected' # selected
    /\ UNCHANGED <<phase, mode, items, stats, data, selected_tab, followups, last,
                   reqs, wire, focus, fnVars, loopVars>>

HandlerNext ==
    \/ \E fn \in HandlerFutures : Enter(fn)
    \/ \E t \in 1..Len(tasks) : Return(t)
    \/ \E code \in {"g", "G"} : Cursor(code)

HandlerSpec == RunInit /\ [][HandlerNext]_vars

\* C35: the exclusive borrow of the client is released by the time a handler
\* returns, on success, on a transport failure and on NoRowSelected and
\* OutOfBound: between two handlers the client is not borrowed and holds no
\* request, and no handler entered after another returned panics in borrow_mut.
C35_BorrowReleased ==
    /\ []((\A t \in 1..Len(tasks) : HasReturned(t)) => client = FreeClient)
    /\ [][Len(tasks') > Len(tasks) => phase' # "panic"]_vars

\* NoRowSelected, a transport failure and OutOfBound one after the other,
\* and the client free after the third
C35_Witness ==
    /\ Len(tasks) = 3
    /\ tasks[1].result = E_NO_ROW
    /\ tasks[2].result = E_TRANSPORT
    /\ tasks[3].result = E_OUT_OF_BOUND
    /\ client = FreeClient

----------------------------------------------------------------------------
(* The selection after a Tick of the List view *)

\* C36: after every Tick of the List view the selected index is none or
\* smaller than the number of items of the new model: a Tick that returns
\* fewer items than before never leaves the selection past the end.
C36_TickKeepsSelectionInside ==
    [][(mode = "Home" /\ last'.act = "Tick" /\ phase' = "run") =>
          (selected' = None \/ Unwrap(selected') < Len(items'))]_vars

----------------------------------------------------------------------------
(* The display name of a torrent with a long name *)

\* one character of 1, 2, 3 and 4 bytes in UTF-8: b, e acute, the euro sign,
\* a face
Utf8Chars == {<<98>>, <<195, 169>>, <<226, 130, 172>>, <<240, 159, 152, 128>>}

\* p times a, then the character, then s times c
NameOf(p, ch, s) == [i \in 1..p |-> 97] \o ch \o [i \in 1..s |-> 99]

\* names of 1 to 89 bytes with the character before, across and after byte 80
NameInputs ==
    {NameOf(p, ch, s) : p \in {0} \cup (MAX_NAME_LEN - 5)..(MAX_NAME_LEN + 2),
                        ch \in Utf8Chars, s \in 0..3}

NameInit == FunctionInit(NameInputs)

\* get_torrent_data on a response of one torrent named arg
MapHomeName ==
    /\ phase = "function" /\ ret = <<>>
    /\ \E torrents \in {<<RawFull(1, arg, FALSE, "Stopped")>>} :
        ret' = <<[fn |-> "get_torrent_data",
                  panics |-> get_torrent_data_panics(torrents),
                  name |-> get_torrent_data(torrents)[1].name]>>
    /\ UNCHANGED <<appVars, arg, loopVars>>

\* map_torrent_data on a response of one torrent named arg
MapDataName ==
    /\ phase = "function" /\ ret = <<>>
    /\ \E torrents \in {<<RawFull(1, arg, FALSE, "Stopped")>>} :
        ret' = <<[fn |-> "map_torrent_data",
                  panics |-> map_torrent_data_panics(torrents),
                  name |-> map_torrent_data(torrents)[1].formatted_name]>>
    /\ UNCHANGED <<appVars, arg, loopVars>>

NameNext == MapHomeName \/ MapDataName

NameSpec == NameInit /\ [][NameNext]_vars

\* the formatted name shown begins with the display name shown, and the
\* status line follows it
Displays(formatted, shown) ==
    /\ Len(formatted) >= Len(shown) + Len(S_Status)
    /\ SubSeq(formatted, 1, Len(shown) + Len(S_Status)) = shown \o S_Status

\* C37: mapping an item's display name succeeds for every name: a name of at
\* most 80 bytes is displayed unchanged, a longer name is cut to its first 80
\* bytes followed by "...", and the mapping does not fail when byte 80 falls
\* inside a multi-byte character.
C37_NameAlwaysMapped ==
    ret # <<>> =>
        /\ ~ret[1].panics
        /\ Displays(ret[1].name,
                    IF Len(arg) <= MAX_NAME_LEN THEN arg
                    ELSE SubSeq(arg, 1, MAX_NAME_LEN) \o S_Dots)

----------------------------------------------------------------------------
(* The loop as long as it runs: the merged stream of StreamSpec with the    *)
(* List view's handlers at work, each run to its end within the dispatch   *)
(* (block_on: a request is answered before the loop proceeds), and the     *)
(* loop taking a step whenever it can.                                     *)

LiveKeys == {"q", "j", "p"}

\* the torrent whose name has byte 80 inside a character
LongName == NameOf(MAX_NAME_LEN - 1, <<195, 169>>, 0)

\* what the transport answers to a Tick's torrent_get
LiveAnswers ==
    {Err, Ok(<<>>), Ok(<<RawFull(1, NameA, FALSE, "Downloading")>>),
     Ok(<<RawFull(1, LongName, FALSE, "Downloading")>>)}

\* The loop pulls the next external action and the List view's handlers run
\* on it: Home::handle_key_event for a key, Home::update and then
\* SessionStat::update for a Tick. A handler that panics ends the program.
Dispatch ==
    /\ phase = "run" /\ followups = <<>>
    /\ stream.input # <<>> \/ stream.timer # <<>>
    /\ \E e \in {NextExternal(stream)}, rh \in LiveAnswers,
          rs \in Answers(GetStats), checks \in BOOLEAN :
        \E k \in {Home_handle_key_event(e.act.arg, items, selected, rh, checks)},
           h \in {Home_update(e.act, items, rh)},
           st \in {SessionStat_update(e.act, stats, rs)},
           panic \in {IF e.act.type = "Key"
                      THEN Home_handle_key_event(e.act.arg, items, selected, rh, checks).panic
                      ELSE rh.ok /\ get_torrent_data_panics(rh.body)} :
            /\ dispatched' = Append(dispatched, e)
            /\ stream' = [stream EXCEPT
                            ![e.src] = Tail(@),
                            !.pulled = e.stamp,
                            !.waited = Len(stream.input) + Len(stream.timer) - 1]
            /\ phase' = IF panic THEN "panic" ELSE phase
            /\ selected' = IF e.act.type = "Key" THEN k.selected ELSE selected
            /\ items' = IF panic THEN items ELSE h.items
            /\ stats' = IF panic THEN stats ELSE st.stats
            /\ followups' = IF panic THEN <<>>
                            ELSE IF e.act.type = "Key" THEN k.followup
                            ELSE h.followup \o st.followup
            /\ last' = Last(e.act.type, e.act.arg,
                            IF e.act.type = "Key" \/ rh.ok THEN {} ELSE {"Home"})
    /\ UNCHANGED <<mode, data, selected_tab, reqs, wire, focus, fnVars, client, tasks>>

LiveNext ==
    \/ \E code \in LiveKeys : KeyPressed(code)
    \/ TimerFired(Tick)
    \/ Dispatch
    \/ Follow

\* the loop does not pause while an action waits
LiveSpec ==
    RunInit /\ [][LiveNext]_vars /\ WF_vars(Dispatch) /\ WF_vars(Follow)

\* the n-th action produced was pulled from the stream
WasDispatched(n) ==
    \E i \in 1..Len(dispatched) :
        dispatched[i].src # "followup" /\ dispatched[i].stamp = n

\* the Tick dispatched last replaced the model of the List view
TickReplaced == phase = "run" /\ last.act = "Tick" /\ last.failed = {}

\* an Error action followed the Tick dispatched last
TickFailed ==
    /\ last.act = "Tick"
    /\ \E i \in 1..Len(dispatched) :
        dispatched[i] = Event("followup", ErrorAct(E_TRANSPORT), stream.pulled)

\* every action produced is dispatched unless the loop has quit, and every
\* Tick is answered
LoopIsLive ==
    /\ \A n \in 1..MaxEvents :
        (stream.produced >= n) ~> (WasDispatched(n) \/ phase = "quit")
    /\ (last.act = "Tick") ~> (TickReplaced \/ TickFailed \/ phase = "quit")

\* C38: every request being answered, every action placed on the merged
\* stream before a Quit is eventually dispatched, each Tick is eventually
\* followed by a replaced model or an Error action, and the loop never stops
\* dispatching except by Quit.
C38_LoopStopsOnlyByQuit ==
    /\ LoopIsLive
    /\ [](phase \in {"run", "quit"})

====
